---- MODULE Spec2Model ----
(***************************************************************************)
(* A model of asn1tools/parser.py: the conversion functions that the       *)
(* pyparsing grammar of create_grammar() attaches as parse actions, and    *)
(* parse_string(), which runs the textparser grammar (Asn1Parser), the     *)
(* Transformer and then the pyparsing grammar on one source.               *)
(*                                                                         *)
(* convert_enum_values and the literal conversions are modelled on bare    *)
(* values: a list or tuple is a sequence, a text that is inspected         *)
(* character by character is a sequence of one-character strings, and      *)
(* EXTENSION_MARKER (None) is the empty sequence.  The grammar and the     *)
(* other conversions work on values that carry their Python type: a        *)
(* record with one field named after the type (none, int, bool, str,       *)
(* text, list, tuple, dict), so that isinstance() and the failures of      *)
(* int() are computed rather than assumed.                                 *)
(*                                                                         *)
(* A raise is an outcome record whose exc field names the class: every     *)
(* function that can raise returns [exc |-> "", val |-> v] or              *)
(* [exc |-> class, ...].                                                   *)
(***************************************************************************)
EXTENDS Integers, Sequences, FiniteSets, TLC

VARIABLES
    pc,     \* position of the running call
    arg,    \* the argument of the call: the tokens or the source
    ret,    \* the outcome of the call
    log     \* the records LOGGER.warning has emitted, in order

vars == <<pc, arg, ret, log>>

(***************************************************************************)
(* Bounds of the explored inputs.                                          *)
(***************************************************************************)
MaxRoot == 3        \* items of a root enumeration
MaxAdditional == 2  \* items of an additional enumeration
MaxNumber == 2      \* explicit numbers are drawn from 0..MaxNumber
MaxLiteral == 3     \* characters between the quotes of a bstring or hstring

(***************************************************************************)
(* Generic helpers.                                                        *)
(***************************************************************************)
Range(s) == {s[i] : i \in 1..Len(s)}

SeqsUpTo(S, n) == UNION {[1..k -> S] : k \in 0..n}

NonEmptySeqsUpTo(S, n) == UNION {[1..k -> S] : k \in 1..n}

Min(S) == CHOOSE m \in S : \A k \in S : m <= k

Returned(v) == [exc |-> "", val |-> v]

Pending == [exc |-> "pending"]

EXTENSION_MARKER == << >>

(***************************************************************************)
(* pyparsing.lineno(loc, string): one more than the number of newlines     *)
(* before offset loc (offsets count from 0, sequences from 1).             *)
(***************************************************************************)
lineno(loc, string) ==
    1 + Cardinality({i \in 1..Len(string) : i <= loc /\ string[i] = "\n"})

(***************************************************************************)
(* convert_enum_values.                                                    *)
(* tokens = <<root, extension>>.  An item written `name` is <<name>>; an   *)
(* item written `name(n)` is <<name, "(", n, ")">> (Group(named_number),   *)
(* n already an int by convert_integer).  extension is << >> when no `...` *)
(* was written and <<marker group, item, ...>> otherwise.                  *)
(***************************************************************************)
isinstance_list(item) == Len(item) = 4

DuplicatedEnumeratedNumberAtLineOne(number, location, string) ==
    [exc |-> "ParseError",
     msg |-> "Duplicated ENUMERATED number {} at line {}.",
     number |-> number,
     line |-> 1]

DuplicatedEnumeratedNumber(number, location, string) ==
    [exc |-> "ParseError",
     msg |-> "Duplicated ENUMERATED number {} at line {}.",
     number |-> number,
     line |-> lineno(location, string)]

\* add_used_numbers without the duplicate check
RECURSIVE add_used_numbers_unchecked(_, _, _, _)
add_used_numbers_unchecked(items, used_numbers, location, string) ==
    IF items = << >>
    THEN Returned(used_numbers)
    ELSE LET item == Head(items) IN
         add_used_numbers_unchecked(
             Tail(items),
             IF isinstance_list(item) THEN Append(used_numbers, item[3])
             ELSE used_numbers,
             location, string)

RECURSIVE add_used_numbers(_, _, _, _)
add_used_numbers(items, used_numbers, location, string) ==
    IF items = << >>
    THEN Returned(used_numbers)
    ELSE LET item == Head(items) IN
         IF ~isinstance_list(item)
         THEN add_used_numbers(Tail(items), used_numbers, location, string)
         ELSE LET item_number == item[3] IN
              IF item_number \in Range(used_numbers)
              THEN DuplicatedEnumeratedNumber(item_number, location, string)
              ELSE add_used_numbers(Tail(items),
                                    Append(used_numbers, item_number),
                                    location, string)

\* while number in used_numbers: number += 1
RECURSIVE skip_used(_, _)
skip_used(number, used_numbers) ==
    IF number \in Range(used_numbers)
    THEN skip_used(number + 1, used_numbers)
    ELSE number

\* the loop over the root enumeration; st = [number, values, used_numbers]
RECURSIVE root_enumeration_loop(_, _)
root_enumeration_loop(root, st) ==
    IF root = << >>
    THEN st
    ELSE LET token == Head(root) IN
         IF isinstance_list(token)
         THEN root_enumeration_loop(
                  Tail(root),
                  [st EXCEPT !.values = Append(@, <<token[1], token[3]>>)])
         ELSE LET number == skip_used(st.number, st.used_numbers) IN
              root_enumeration_loop(
                  Tail(root),
                  [number |-> number + 1,
                   values |-> Append(st.values, <<token[1], number>>),
                   used_numbers |-> Append(st.used_numbers, number)])

\* the additional loop searching for a free number as the root loop does
RECURSIVE additional_enumeration_loop_skipping(_, _, _, _)
additional_enumeration_loop_skipping(additional, st, location, string) ==
    IF additional = << >>
    THEN Returned(st.values)
    ELSE LET token == Head(additional) IN
         IF isinstance_list(token)
         THEN additional_enumeration_loop_skipping(
                  Tail(additional),
                  [number |-> token[3] + 1,
                   values |-> Append(st.values, <<token[1], token[3]>>),
                   used_numbers |-> st.used_numbers],
                  location, string)
         ELSE LET number == skip_used(st.number, st.used_numbers) IN
              additional_enumeration_loop_skipping(
                  Tail(additional),
                  [number |-> number + 1,
                   values |-> Append(st.values, <<token[1], number>>),
                   used_numbers |-> Append(st.used_numbers, number)],
                  location, string)

\* the additional loop with a counter that explicit numbers do not set
RECURSIVE additional_enumeration_loop_counting_on(_, _, _, _)
additional_enumeration_loop_counting_on(additional, st, location, string) ==
    IF additional = << >>
    THEN Returned(st.values)
    ELSE LET token == Head(additional) IN
         IF isinstance_list(token)
         THEN additional_enumeration_loop_counting_on(
                  Tail(additional),
                  [number |-> st.number + 1,
                   values |-> Append(st.values, <<token[1], token[3]>>),
                   used_numbers |-> st.used_numbers],
                  location, string)
         ELSE IF st.number \in Range(st.used_numbers)
              THEN DuplicatedEnumeratedNumber(st.number, location, string)
              ELSE additional_enumeration_loop_counting_on(
                       Tail(additional),
                       [number |-> st.number + 1,
                        values |-> Append(st.values, <<token[1], st.number>>),
                        used_numbers |-> Append(st.used_numbers, st.number)],
                       location, string)

\* the loop over the additional enumeration
RECURSIVE additional_enumeration_loop(_, _, _, _)
additional_enumeration_loop(additional, st, location, string) ==
    IF additional = << >>
    THEN Returned(st.values)
    ELSE LET token == Head(additional) IN
         IF isinstance_list(token)
         THEN additional_enumeration_loop(
                  Tail(additional),
                  [number |-> token[3] + 1,
                   values |-> Append(st.values, <<token[1], token[3]>>),
                   used_numbers |-> st.used_numbers],
                  location, string)
         ELSE IF st.number \in Range(st.used_numbers)
              THEN DuplicatedEnumeratedNumber(st.number, location, string)
              ELSE additional_enumeration_loop(
                       Tail(additional),
                       [number |-> st.number + 1,
                        values |-> Append(st.values, <<token[1], st.number>>),
                        used_numbers |-> Append(st.used_numbers, st.number)],
                       location, string)

convert_enum_values(string, location, tokens) ==
    LET root == tokens[1]
        extension == tokens[2]
        used_root == add_used_numbers(root, << >>, location, string)
    IN  IF used_root.exc # ""
        THEN used_root
        ELSE LET st == root_enumeration_loop(
                           root,
                           [number |-> 0,
                            values |-> << >>,
                            used_numbers |-> used_root.val])
             IN  IF extension = << >>
                 THEN Returned(st.values)
                 ELSE LET additional == Tail(extension)
                          used_add == add_used_numbers(additional,
                                                       st.used_numbers,
                                                       location, string)
                      IN  IF used_add.exc # ""
                          THEN used_add
                          ELSE additional_enumeration_loop(
                                   additional,
                                   [number |-> st.number,
                                    values |-> Append(st.values,
                                                      EXTENSION_MARKER),
                                    used_numbers |-> used_add.val],
                                   location, string)

(***************************************************************************)
(* The enumerations the grammar can deliver (lines 2472-2488): a root of   *)
(* one to MaxRoot items and, after `...`, zero to MaxAdditional items.     *)
(* The item at position i is named by ItemNames.                           *)
(***************************************************************************)
ItemNames == <<"a", "b", "c", "d", "e", "f", "g", "h">>

ItemChoices == {-1} \cup (0..MaxNumber)     \* -1: written without a number

EnumItem(name, choice) ==
    IF choice = -1 THEN <<name>> ELSE <<name, "(", choice, ")">>

EnumItems(choices, offset) ==
    [i \in 1..Len(choices) |-> EnumItem(ItemNames[offset + i], choices[i])]

EnumTokens ==
    {<<EnumItems(r, 0), << >> >> : r \in NonEmptySeqsUpTo(ItemChoices, MaxRoot)}
    \cup
    {<<EnumItems(r, 0), << << >> >> \o EnumItems(a, Len(r))>> :
        r \in NonEmptySeqsUpTo(ItemChoices, MaxRoot),
        a \in SeqsUpTo(ItemChoices, MaxAdditional)}

EnumString == <<"E", "\n", "{">>

EnumArgs ==
    [string : {EnumString}, location : {0, 2}, tokens : EnumTokens]

InitEnum ==
    /\ pc = "convert_enum_values"
    /\ arg \in EnumArgs
    /\ ret = Pending
    /\ log = << >>

CallConvertEnumValues ==
    /\ pc = "convert_enum_values"
    /\ ret' = convert_enum_values(arg.string, arg.location, arg.tokens)
    /\ pc' = "done"
    /\ UNCHANGED <<arg, log>>

NextEnum == CallConvertEnumValues

SpecEnum == InitEnum /\ [][NextEnum]_vars

(***************************************************************************)
(* Reading an enumeration back from the argument and the returned list.    *)
(***************************************************************************)
RootItems == arg.tokens[1]

AdditionalItems ==
    IF arg.tokens[2] = << >> THEN << >> ELSE Tail(arg.tokens[2])

Numbered(items) == {i \in 1..Len(items) : Len(items[i]) = 4}

Unnumbered(items) == {i \in 1..Len(items) : Len(items[i]) = 1}

ExplicitNumbers(items) == {items[i][3] : i \in Numbered(items)}

\* position in the returned list of the i-th additional item
AdditionalAt(i) == Len(RootItems) + 1 + i

EnumReturned == pc = "done" /\ ret.exc = ""

SmallestFree(used) == Min({n \in 0..Cardinality(used) : n \notin used})

PairNumbers(values) ==
    {values[i][2] : i \in {j \in 1..Len(values) : values[j] # EXTENSION_MARKER}}

\* C3: whenever convert_enum_values returns a values list, the numbers of
\* its (name, number) pairs are pairwise distinct, explicit and
\* auto-assigned, root and additional alike.
C3_EnumNumbersDistinct ==
    EnumReturned =>
        \A i, j \in 1..Len(ret.val) :
            (/\ i # j
             /\ ret.val[i] # EXTENSION_MARKER
             /\ ret.val[j] # EXTENSION_MARKER)
            => ret.val[i][2] # ret.val[j][2]

\* a returned list that mixes explicit and auto-assigned numbers on both
\* sides of the extension marker
C3_Witness ==
    /\ EnumReturned
    /\ Numbered(RootItems) # {} /\ Unnumbered(RootItems) # {}
    /\ Numbered(AdditionalItems) # {} /\ Unnumbered(AdditionalItems) # {}
    /\ Len(ret.val) = Len(RootItems) + 1 + Len(AdditionalItems)

(***************************************************************************)
(* What the numbering amounts to, stated without the loops.                *)
(***************************************************************************)
\* the numbers of the root items: the explicit ones and, for k unnumbered
\* items, the k smallest naturals that are not explicit in the root
RECURSIVE SmallestFreeSet(_, _)
SmallestFreeSet(used, k) ==
    IF k = 0 THEN {}
    ELSE LET n == SmallestFree(used) IN {n} \cup SmallestFreeSet(used \cup {n}, k - 1)

RootAutoNumbers ==
    SmallestFreeSet(ExplicitNumbers(RootItems), Cardinality(Unnumbered(RootItems)))

RootNumbers == ExplicitNumbers(RootItems) \cup RootAutoNumbers

\* the counter the root enumeration leaves behind
RootCounter ==
    IF RootAutoNumbers = {} THEN 0
    ELSE 1 + (CHOOSE m \in RootAutoNumbers : \A k \in RootAutoNumbers : k <= m)

\* the number the single counter gives the i-th additional item
RECURSIVE AdditionalNumber(_)
AdditionalNumber(i) ==
    IF Len(AdditionalItems[i]) = 4 THEN AdditionalItems[i][3]
    ELSE IF i = 1 THEN RootCounter
    ELSE AdditionalNumber(i - 1) + 1

\* no explicit number repeats a number of the root or an earlier explicit one
ExplicitNumbersClean ==
    /\ Cardinality(ExplicitNumbers(RootItems)) = Cardinality(Numbered(RootItems))
    /\ Cardinality(ExplicitNumbers(AdditionalItems))
           = Cardinality(Numbered(AdditionalItems))
    /\ ExplicitNumbers(AdditionalItems) \cap RootNumbers = {}

\* the counter value of some unnumbered additional item is already in use
CounterCollides ==
    \E i \in Unnumbered(AdditionalItems) :
        AdditionalNumber(i) \in
            RootNumbers \cup ExplicitNumbers(AdditionalItems)
            \cup {AdditionalNumber(j) : j \in {k \in Unnumbered(AdditionalItems) : k < i}}

ExplicitDuplicates ==
    LET items == RootItems \o AdditionalItems
    IN  {items[j][3] :
            j \in {k \in Numbered(items) :
                      \E i \in Numbered(items) :
                          i < k /\ items[i][3] = items[k][3]}}

\* the numbered root items whose number an earlier root item carries
RootDuplicateAt ==
    {j \in Numbered(RootItems) :
        \E i \in Numbered(RootItems) :
            i < j /\ RootItems[i][3] = RootItems[j][3]}

\* the numbered additional items whose number is in use: by a root item,
\* numbered explicitly or automatically, or by an earlier explicit number
\* of the additional enumeration
AdditionalInUseAt ==
    {j \in Numbered(AdditionalItems) :
        AdditionalItems[j][3] \in
            RootNumbers
            \cup {AdditionalItems[i][3] :
                     i \in {k \in Numbered(AdditionalItems) : k < j}}}

\* the number add_used_numbers finds in use first
FirstNumberInUse ==
    IF RootDuplicateAt # {} THEN RootItems[Min(RootDuplicateAt)][3]
    ELSE AdditionalItems[Min(AdditionalInUseAt)][3]

CounterInUseAt ==
    {i \in Unnumbered(AdditionalItems) :
        AdditionalNumber(i) \in
            RootNumbers \cup ExplicitNumbers(AdditionalItems)
            \cup {AdditionalNumber(j) :
                     j \in {k \in Unnumbered(AdditionalItems) : k < i}}}

\* `...` was written
EllipsisWritten == arg.tokens[2] # << >>

\* C28: in the additional enumeration an explicit number sets the counter,
\* an unnumbered item takes the counter (the first item the value the root
\* left behind), ParseError 'Duplicated ENUMERATED number' is raised for
\* the first counter value that is in use, and the counter goes up by one
\* after every item; the returned list is the root items in source order,
\* one extension marker iff `...` was written, and the additional items in
\* source order
C28_AdditionalCounter ==
    (pc = "done" /\ ExplicitNumbersClean) =>
        IF CounterInUseAt # {}
        THEN /\ ret.exc = "ParseError"
             /\ ret.msg = "Duplicated ENUMERATED number {} at line {}."
             /\ ret.number = AdditionalNumber(Min(CounterInUseAt))
        ELSE /\ ret.exc = ""
             /\ Len(ret.val) =
                    Len(RootItems)
                    + (IF EllipsisWritten THEN 1 + Len(AdditionalItems) ELSE 0)
             /\ \A i \in 1..Len(RootItems) :
                    /\ ret.val[i] # EXTENSION_MARKER
                    /\ ret.val[i][1] = RootItems[i][1]
             /\ EllipsisWritten =>
                    ret.val[Len(RootItems) + 1] = EXTENSION_MARKER
             /\ \A i \in 1..Len(AdditionalItems) :
                    ret.val[AdditionalAt(i)] =
                        <<AdditionalItems[i][1], AdditionalNumber(i)>>

\* a returned list where an unnumbered additional item follows a numbered
\* one and a smaller number is still free
C28_Witness ==
    /\ EnumReturned
    /\ \E i \in Unnumbered(AdditionalItems) :
          /\ i > 1
          /\ (i - 1) \in Numbered(AdditionalItems)
          /\ ret.val[AdditionalAt(i)][2] = AdditionalItems[i - 1][3] + 1
          /\ \E n \in 0..AdditionalItems[i - 1][3] : n \notin PairNumbers(ret.val)

(***************************************************************************)
(* bstring and hstring literals.  A literal is a sequence of characters.   *)
(* The characters below stand for the classes the two regular expressions  *)
(* and the two substitutions tell apart: binary digits, other decimal      *)
(* digits, the hex letters (B among them), H, the quote and white space.   *)
(***************************************************************************)
WhiteSpace == {" ", "\n", "\t"}

BinaryDigits == {"0", "1"}

HexDigits == {"0", "1", "9", "A", "B", "F"}

LiteralAlphabet == HexDigits \cup {" ", "\n", "H", "'"}

\* re.sub(pattern, '', text) for a pattern that is one character class
re_sub_class(class, text) == SelectSeq(text, LAMBDA c : c \notin class)

\* str.lower() on the characters of LiteralAlphabet
lower_char(c) ==
    CASE c = "A" -> "a"
      [] c = "B" -> "b"
      [] c = "F" -> "f"
      [] c = "H" -> "h"
      [] OTHER -> c

lower(text) == [i \in 1..Len(text) |-> lower_char(text[i])]

\* Regex(r"'[01\s]*'B") and Regex(r"'[0-9A-F\s]*'H") matching a whole text
quoted_class_match(text, class, suffix) ==
    /\ Len(text) >= 3
    /\ text[1] = "'"
    /\ text[Len(text) - 1] = "'"
    /\ text[Len(text)] = suffix
    /\ \A i \in 2..(Len(text) - 2) : text[i] \in class

bstring(text) == quoted_class_match(text, BinaryDigits \cup WhiteSpace, "B")

hstring(text) == quoted_class_match(text, HexDigits \cup WhiteSpace, "H")

\* convert_bstring without the white space in the substituted class
convert_bstring_keeping_space(tokens) ==
    <<"0", "b">> \o re_sub_class({"B", "'"}, tokens[1])

convert_bstring(tokens) ==
    <<"0", "b">> \o re_sub_class(WhiteSpace \cup {"B", "'"}, tokens[1])

convert_hstring(tokens) ==
    <<"0", "x">> \o lower(re_sub_class(WhiteSpace \cup {"H", "'"}, tokens[1]))

\* every text '...'B and '...'H over the alphabet; the lexer's regular
\* expressions select the literals among them
QuotedTexts(suffix) ==
    {<<"'">> \o body \o <<"'", suffix>> :
        body \in SeqsUpTo(LiteralAlphabet, MaxLiteral)}

InitLiteral ==
    /\ \/ pc = "convert_bstring" /\ arg \in {<<t>> : t \in {x \in QuotedTexts("B") : bstring(x)}}
       \/ pc = "convert_hstring" /\ arg \in {<<t>> : t \in {x \in QuotedTexts("H") : hstring(x)}}
    /\ ret = Pending
    /\ log = << >>

CallConvertBstring ==
    /\ pc = "convert_bstring"
    /\ ret' = Returned(convert_bstring(arg))
    /\ pc' = "done_bstring"
    /\ UNCHANGED <<arg, log>>

CallConvertHstring ==
    /\ pc = "convert_hstring"
    /\ ret' = Returned(convert_hstring(arg))
    /\ pc' = "done_hstring"
    /\ UNCHANGED <<arg, log>>

NextLiteral == CallConvertBstring \/ CallConvertHstring

SpecLiteral == InitLiteral /\ [][NextLiteral]_vars

\* the characters between the quotes of the literal in arg
LiteralBody == SubSeq(arg[1], 2, Len(arg[1]) - 2)

\* C7: convert_hstring returns '0x' followed by exactly the hex digits of
\* the literal, in order and lowercased, and convert_bstring returns '0b'
\* followed by exactly its binary digits in order, so that the count of
\* digits is kept; no white space, quote, 'H' or 'B' is left.
C7_LiteralDigitsKept ==
    /\ pc = "done_hstring" =>
          /\ ret.val = <<"0", "x">>
                 \o lower(SelectSeq(LiteralBody, LAMBDA c : c \in HexDigits))
          /\ \A i \in 3..Len(ret.val) :
                 ret.val[i] \in {"0", "1", "9", "a", "b", "f"}
    /\ pc = "done_bstring" =>
          /\ ret.val = <<"0", "b">>
                 \o SelectSeq(LiteralBody, LAMBDA c : c \in BinaryDigits)
          /\ Len(ret.val) - 2
                 = Cardinality({i \in 1..Len(LiteralBody) :
                                    LiteralBody[i] \in BinaryDigits})
          /\ \A i \in 3..Len(ret.val) : ret.val[i] \in BinaryDigits

\* `'0 1'B` with its leading zero kept, or `'A B'H` lowercased
C7_Witness ==
    \/ /\ pc = "done_bstring"
       /\ arg = << <<"'", "0", " ", "1", "'", "B">> >>
       /\ ret.val = <<"0", "b", "0", "1">>
    \/ /\ pc = "done_hstring"
       /\ arg = << <<"'", "A", "\n", "B", "'", "H">> >>
       /\ ret.val = <<"0", "x", "a", "b">>

(***************************************************************************)
(* Python values of the pyparsing stage.  The parse actions below test     *)
(* the type of a token (isinstance), so a token carries its Python type: a *)
(* value is a record with one field named after the type.  A str that is   *)
(* read digit by digit (a numeral) is a "text", a sequence of characters;  *)
(* a str that is only compared (a keyword, a name) is a "str".  The items  *)
(* of a dict are the fields of the record under "dict".                    *)
(***************************************************************************)
None == [none |-> TRUE]

py_int(n) == [int |-> n]

py_bool(b) == [bool |-> b]

py_str(s) == [str |-> s]

py_text(chars) == [text |-> chars]

py_list(items) == [list |-> items]

py_tuple(items) == [tuple |-> items]

py_dict(items) == [dict |-> items]

Tokens(tag, tokens) == [Tokens |-> tokens, tag |-> tag]

isinstance(value, type) == type \in DOMAIN value

isinstance_str(value) == isinstance(value, "str") \/ isinstance(value, "text")

items_of(value) ==
    IF isinstance(value, "list") THEN value.list
    ELSE IF isinstance(value, "tuple") THEN value.tuple
    ELSE value.Tokens

\* value[index], indices counted from 0 as in the source
at(value, index) == items_of(value)[index + 1]

\* the characters of the str tokens the constraint grammar can leave behind
chars_of(s) ==
    CASE s = "..." -> <<".", ".", ".">>
      [] s = "{" -> <<"{">>
      [] s = "}" -> <<"}">>
      [] OTHER -> <<"C", "O", "N", "S", "T", "R", "A", "I", "N", "E", "D",
                    " ", "B", "Y">>

len(value) ==
    IF isinstance(value, "str") THEN Len(chars_of(value.str))
    ELSE IF isinstance(value, "text") THEN Len(value.text)
    ELSE IF isinstance(value, "dict") THEN Cardinality(DOMAIN value.dict)
    ELSE Len(items_of(value))

\* the truth value of `if value:`
truth(value) ==
    IF isinstance(value, "none") THEN FALSE
    ELSE IF isinstance(value, "bool") THEN value.bool
    ELSE IF isinstance(value, "int") THEN value.int # 0
    ELSE len(value) > 0

\* value == 'text' for a str literal; Tokens.__eq__ compares the tag
eq_str(value, s) ==
    IF isinstance(value, "Tokens") THEN value.tag = s
    ELSE isinstance(value, "str") /\ value.str = s

in_list_or_default(s, value) ==
    \E i \in 1..Len(value.list) :
        \/ eq_str(value.list[i], s)
        \/ s = "OPTIONAL" /\ eq_str(value.list[i], "DEFAULT")

\* 'text' in value, for a list
in_list(s, value) == \E i \in 1..Len(value.list) : eq_str(value.list[i], s)

\* dict.update(other)
update(d, other) ==
    [k \in DOMAIN d \cup DOMAIN other |->
        IF k \in DOMAIN other THEN other[k] ELSE d[k]]

Raised(class) == [exc |-> class]

\* a raise passes through the calls above it: the outcome of `continue` on
\* the value returned, or the raise itself
then(outcome, continue(_)) ==
    IF outcome.exc # "" THEN outcome ELSE continue(outcome.val)

(***************************************************************************)
(* int(): a numeral is an optional sign and at least one decimal digit.    *)
(* A Python int is returned as it is, a str that is no numeral raises      *)
(* ValueError, any other type raises TypeError.                            *)
(***************************************************************************)
Digits == <<"0", "1", "2", "3", "4", "5", "6", "7", "8", "9">>

digit_value(c) == (CHOOSE i \in 1..Len(Digits) : Digits[i] = c) - 1

unsigned_part(chars) ==
    IF chars # << >> /\ chars[1] \in {"-", "+"} THEN Tail(chars) ELSE chars

is_numeral(chars) ==
    /\ unsigned_part(chars) # << >>
    /\ \A i \in 1..Len(unsigned_part(chars)) :
           unsigned_part(chars)[i] \in Range(Digits)

RECURSIVE digits_value(_)
digits_value(chars) ==
    IF chars = << >> THEN 0
    ELSE 10 * digits_value(SubSeq(chars, 1, Len(chars) - 1))
         + digit_value(chars[Len(chars)])

numeral_value(chars) ==
    IF chars[1] = "-" THEN 0 - digits_value(unsigned_part(chars))
    ELSE digits_value(unsigned_part(chars))

int(value) ==
    IF isinstance(value, "int") THEN Returned(value)
    ELSE IF isinstance(value, "text")
    THEN IF is_numeral(value.text)
         THEN Returned(py_int(numeral_value(value.text)))
         ELSE Raised("ValueError")
    ELSE IF isinstance(value, "str") THEN Raised("ValueError")
    ELSE Raised("TypeError")

\* the parse action of integer and signed_number, on their one token
convert_integer(tokens) ==
    LET converted(number) ==
            IF number.exc = "" THEN py_list(<<number.val>>) ELSE tokens
    IN  converted(int(at(tokens, 0)))

\* the parse action of real_number, on its one token
convert_real_number(tokens) ==
    IF "." \notin Range(at(tokens, 0).text)
    THEN then(int(at(tokens, 0)),
              LAMBDA number : Returned(py_list(<<number>>)))
    ELSE Returned(tokens)

convert_number(token) ==
    LET converted(first, number) ==
            IF number.exc = "" THEN number.val ELSE first
        unwrapped(first) == converted(first, int(first))
    IN  unwrapped(IF isinstance(token, "list") THEN at(token, 0) ELSE token)

(***************************************************************************)
(* Conversion of tags, value ranges and constrained types.                 *)
(***************************************************************************)
\* a mutation of convert_tag that drops the kind
convert_tag_without_kind(tokens) ==
    IF len(tokens) > 0
    THEN IF len(at(tokens, 0)) = 1
         THEN then(int(at(at(tokens, 0), 0)),
                   LAMBDA number : Returned(py_dict([number |-> number])))
         ELSE Returned(py_dict(
                  [number |-> convert_number(at(at(tokens, 0), 1)),
                   class |-> at(at(tokens, 0), 0)]))
    ELSE Returned(None)

convert_tag(tokens) ==
    LET with_kind(tag_) ==
            IF truth(at(tokens, 1))
            THEN Returned(py_dict(update(tag_,
                                         [kind |-> at(at(tokens, 1), 0)])))
            ELSE Returned(py_dict(tag_))
    IN  IF len(tokens) > 0
        THEN IF len(at(tokens, 0)) = 1
             THEN then(int(at(at(tokens, 0), 0)),
                       LAMBDA number : with_kind([number |-> number]))
             ELSE with_kind([number |-> convert_number(at(at(tokens, 0), 1)),
                             class |-> at(at(tokens, 0), 0)])
        ELSE Returned(None)

convert_value_range(tokens) ==
    LET minimum == IF isinstance(at(tokens, 0), "list")
                   THEN at(at(tokens, 0), 0) ELSE at(tokens, 0)
        maximum == IF isinstance(at(tokens, 1), "list")
                   THEN at(at(tokens, 1), 0) ELSE at(tokens, 1)
    IN  py_tuple(<<minimum, maximum>>)

\* one value of a size list: a pair for 'lower .. upper', else one number
size_value(item_tokens) ==
    IF in_list("..", item_tokens)
    THEN py_tuple(<<convert_number(at(item_tokens, 0)),
                    convert_number(at(item_tokens, 2))>>)
    ELSE convert_number(at(item_tokens, 0))

convert_size(tokens) ==
    IF len(tokens) = 0 THEN None
    ELSE LET first == at(tokens, 0)
         IN  IF eq_str(at(first, 0), "SIZE")
             THEN py_list([i \in 1..len(at(first, 1)) |->
                              size_value(at(at(first, 1), i - 1))])
             ELSE IF isinstance(at(first, 0), "dict")
                     /\ "size" \in DOMAIN at(first, 0).dict
             THEN at(first, 0).dict["size"]
             ELSE None

SizedTypes ==
    {"BIT STRING", "OCTET STRING", "IA5String", "VisibleString",
     "UTF8String", "NumericString", "PrintableString"}

\* one round of the loop of convert_size_constraint: the value appended
convert_size_constraint_item(item_tokens) ==
    IF item_tokens = py_str("...") THEN None
    ELSE IF in_list("..", item_tokens)
    THEN py_tuple(<<convert_number(at(item_tokens, 0)),
                    convert_number(at(item_tokens, 2))>>)
    ELSE convert_number(at(item_tokens, 0))

\* the parse action of size_constraint, on ['SIZE', [constraint]]
convert_size_constraint(tokens) ==
    py_dict([size |->
        py_list([i \in 1..len(at(tokens, 1)) |->
                    convert_size_constraint_item(at(at(tokens, 1), i - 1))])])

\* one round of the loop of convert_type over the constraints
convert_type_step(st, constraint_tokens) ==
    IF constraint_tokens = py_str("...")
    THEN [st EXCEPT !.restricted_to = Append(@, None)]
    ELSE IF len(constraint_tokens) = 1
    THEN LET first == IF isinstance(constraint_tokens, "str")
                      THEN constraint_tokens
                      ELSE at(constraint_tokens, 0)
         IN  IF ~isinstance(first, "dict")
             THEN [st EXCEPT !.restricted_to =
                                 Append(@, convert_number(first))]
             ELSE IF \E key \in {"size", "from", "with-components"} :
                         key \in DOMAIN first.dict
             THEN [st EXCEPT !.converted_type = update(@, first.dict)]
             ELSE st
    ELSE st

RECURSIVE convert_type_loop(_, _)
convert_type_loop(st, constraints) ==
    IF constraints = << >> THEN st
    ELSE convert_type_loop(convert_type_step(st, Head(constraints)),
                           Tail(constraints))

\* The types of the modelled sources are not object class field types:
\* their names hold no '&', so the table of such a type is never computed.
convert_type(tokens) ==
    LET constraints == at(tokens, 1)
        restricted(converted_type, restricted_to) ==
            IF restricted_to # << >> /\ py_str("{") \notin Range(restricted_to)
            THEN update(converted_type,
                        "restricted-to" :> py_list(restricted_to))
            ELSE converted_type
        with_size(converted_type, size) ==
            IF converted_type["type"].str \in SizedTypes /\ truth(size)
            THEN py_dict(update(converted_type, [size |-> size]))
            ELSE py_dict(converted_type)
        after_loop(looped) ==
            with_size(restricted(looped.converted_type, looped.restricted_to),
                      convert_size(constraints))
    IN  after_loop(convert_type_loop(
                       [converted_type |-> at(tokens, 0).dict,
                        restricted_to |-> << >>],
                       constraints.list))

(***************************************************************************)
(* Conversion of values and of the members of SEQUENCE, SET and CHOICE.    *)
(***************************************************************************)
\* the outcome of running the outcomes in order: the first raise, or the
\* list of the returned values
first_raised(outcomes) ==
    LET raising == {i \in 1..Len(outcomes) : outcomes[i].exc # ""}
    IN  IF raising = {}
        THEN Returned([i \in 1..Len(outcomes) |-> outcomes[i].val])
        ELSE outcomes[Min(raising)]

convert_bit_string_value(tokens) ==
    LET value_ == at(tokens, 0)
    IN  IF eq_str(value_, "IdentifierList") THEN py_list(value_.Tokens)
        ELSE IF isinstance_str(value_) THEN value_
        ELSE None

\* one component of an OBJECT IDENTIFIER value
convert_value_component(value_tokens) ==
    IF len(value_tokens) = 2
    THEN then(int(at(value_tokens, 1)),
              LAMBDA number :
                  Returned(py_tuple(<<at(value_tokens, 0), number>>)))
    ELSE Returned(convert_number(at(value_tokens, 0)))

convert_value(tokens, type__) ==
    IF eq_str(type__, "INTEGER") THEN int(at(tokens, 0))
    ELSE IF eq_str(type__, "OBJECT IDENTIFIER")
    THEN then(first_raised([i \in 1..len(tokens) |->
                               convert_value_component(at(tokens, i - 1))]),
              LAMBDA components : Returned(py_list(components)))
    ELSE IF eq_str(type__, "BOOLEAN")
    THEN Returned(py_bool(eq_str(at(tokens, 0), "TRUE")))
    ELSE IF eq_str(at(tokens, 0), "BitStringValue")
    THEN Returned(convert_bit_string_value(at(tokens, 0)))
    ELSE IF isinstance_str(at(tokens, 0))
    THEN Returned(convert_number(at(tokens, 0)))
    ELSE IF isinstance(at(tokens, 0), "int") THEN Returned(at(tokens, 0))
    ELSE Returned(None)

RECURSIVE convert_members(_)

\* one round of the loop of convert_members: the element appended
convert_member(member_tokens) ==
    LET paired == len(member_tokens) = 2
        named == IF paired THEN at(member_tokens, 0) ELSE member_tokens
        qualifiers == IF paired THEN at(member_tokens, 1) ELSE py_list(<< >>)
        with_name(member) == update(member.dict, [name |-> at(named, 0)])
        with_optional(member) ==
            IF in_list("OPTIONAL", qualifiers)
            THEN update(member, [optional |-> py_bool(TRUE)])
            ELSE member
        default(member) ==
            IF len(at(qualifiers, 1)) = 0 THEN Returned(py_list(<< >>))
            ELSE convert_value(at(qualifiers, 1), member["type"])
        with_tag(member, tag_) ==
            IF truth(tag_)
            THEN Returned(py_dict(update(member, [tag |-> tag_])))
            ELSE Returned(py_dict(member))
        tagged(member) ==
            then(convert_tag(at(named, 1)),
                 LAMBDA tag_ : with_tag(member, tag_))
        with_default(member) ==
            IF in_list("DEFAULT", qualifiers)
            THEN then(default(member),
                      LAMBDA value_ :
                          tagged(update(member, [default |-> value_])))
            ELSE tagged(member)
    IN  IF member_tokens = py_list(<<py_str("...")>>)
           \/ member_tokens = py_str("...")
        THEN Returned(None)
        ELSE IF eq_str(at(member_tokens, 0), "COMPONENTS OF")
        THEN Returned(py_dict(
                 "components-of" :> at(at(member_tokens, 1), 0).dict["type"]))
        ELSE IF eq_str(at(member_tokens, 0), "[[")
        THEN convert_members(at(member_tokens, 1))
        ELSE with_default(with_optional(with_name(
                 convert_type(at(named, 2)))))

convert_members_without_markers(tokens) ==
    then(first_raised([i \in 1..len(tokens) |->
                          convert_member(at(tokens, i - 1))]),
         LAMBDA members :
             Returned(py_list(SelectSeq(members,
                                        LAMBDA member :
                                            ~isinstance(member, "none")))))

convert_members(tokens) ==
    then(first_raised([i \in 1..len(tokens) |->
                          convert_member(at(tokens, i - 1))]),
         LAMBDA members : Returned(py_list(members)))

convert_constructed_type(name, tokens) ==
    then(convert_members(at(tokens, 2)),
         LAMBDA members :
             Returned(py_dict([type |-> py_str(name), members |-> members])))

convert_sequence_type(tokens) == convert_constructed_type("SEQUENCE", tokens)

convert_set_type(tokens) == convert_constructed_type("SET", tokens)

convert_choice_type(tokens) == convert_constructed_type("CHOICE", tokens)

convert_defined_type(tokens) == py_dict([type |-> at(tokens, 0)])

convert_integer_type(tokens) == py_dict([type |-> py_str("INTEGER")])

convert_boolean_type(tokens) == py_dict([type |-> py_str("BOOLEAN")])

\* the values of convert_enum_values as Python values
enum_values(values) ==
    py_list([i \in 1..Len(values) |->
                IF values[i] = EXTENSION_MARKER THEN None
                ELSE py_tuple(<<py_str(values[i][1]), py_int(values[i][2])>>)])

\* tokens = <<'ENUMERATED', '{', enumerations, '}'>>, in the encoding of
\* convert_enum_values
convert_enumerated_type(string, location, tokens) ==
    then(convert_enum_values(string, location, tokens[3]),
         LAMBDA values :
             Returned(py_dict([type |-> py_str("ENUMERATED"),
                               values |-> enum_values(values)])))

(***************************************************************************)
(* The pyparsing grammar of create_grammar(), production by production.    *)
(* A source is given by its syntax tree: a record per phrase, naming the   *)
(* production that matches it.  Each operator below returns what its       *)
(* production delivers for a phrase (the tokens, after the parse actions   *)
(* attached inside it) or the exception a parse action raised.  Numerals   *)
(* are kept as their characters until a parse action converts them.        *)
(***************************************************************************)
\* [ class number ] kind, all optional: src.written tells whether a tag
\* was written, src.class and src.kind are "" when left out
tag(src) ==
    IF ~src.written THEN py_list(<< >>)
    ELSE py_list(
             <<py_list((IF src.class = "" THEN << >>
                        ELSE <<py_str(src.class)>>)
                       \o <<py_text(src.number)>>),
               py_list(IF src.kind = "" THEN << >>
                       ELSE <<py_str(src.kind)>>)>>)

\* value: a Group around what builtin_value matched
value(src) ==
    CASE src.production = "real_number" ->
             convert_real_number(py_list(<<py_text(src.text)>>))
      [] src.production = "bstring" ->
             Returned(py_list(<<Tokens("BitStringValue",
                                       <<py_text(convert_bstring(<<src.text>>))>>)>>))
      [] src.production = "hstring" ->
             Returned(py_list(<<Tokens("BitStringValue",
                                       <<py_text(convert_hstring(<<src.text>>))>>)>>))
      [] OTHER -> Returned(py_list(<<py_str(src.name)>>))

\* lower .. upper with a numeral on both sides: the lower one is matched
\* by integer, the upper one by value
value_range(src) ==
    then(value([production |-> "real_number", text |-> src.upper]),
         LAMBDA upper :
             Returned(convert_value_range(
                 py_list(convert_integer(py_list(<<py_text(src.lower)>>)).list
                         \o <<upper>>))))

RECURSIVE elements(_)

\* what one element of a constraint adds to the constraints of its type
\* what one element of a constraint adds to the constraints of its type;
\* element_set_spec is unions and nothing else, so neither EXCEPT nor ALL
\* is matched and the closing parenthesis is missed
elements(src) ==
    CASE src.kind = "ellipsis" -> Returned(py_str("..."))
      [] src.kind \in {"exclusion", "all_except"} ->
             Raised("ParseSyntaxException")
      [] src.kind = "parenthesized" ->
             then(first_raised([i \in 1..Len(src.elements) |->
                                   elements(src.elements[i])]),
                  LAMBDA inner :
                      Returned(py_list(<<py_str("(")>> \o inner
                                       \o <<py_str(")")>>)))
      [] src.kind = "size_constraint" ->
             then(first_raised([i \in 1..Len(src.elements) |->
                                   elements(src.elements[i])]),
                  LAMBDA inner :
                      Returned(py_list(<<convert_size_constraint(
                          py_list(<<py_str("SIZE"), py_list(inner)>>))>>)))
      [] OTHER ->
             then(IF src.kind = "value_range" THEN value_range(src)
                  ELSE value(src.value),
                  LAMBDA matched : Returned(py_list(<<matched>>)))

RECURSIVE type_(_)
RECURSIVE component_type(_)

ComponentKinds == {"component_type", "components_of"}

\* delimitedList(p) from the item i on: the index after the longest run of
\* items of the kinds p matches
delimited_list_end(members, i, kinds) ==
    Min({j \in i..(Len(members) + 1) :
            j = Len(members) + 1 \/ members[j].kind \notin kinds})

\* as extension_part, with any number of further `...` before the brace
extension_part_repeated(members, i, additions, roots) ==
    /\ i <= Len(members)
    /\ members[i].kind = "ellipsis"
    /\ \A j \in i..Len(members) :
           members[j].kind \in additions \cup {"ellipsis"}

\* from the item i up to the closing brace:
\* extension_and_exception + extension_additions
\* + ((extension_end_marker + comma + root list) | optional_extension_marker)
\* where CHOICE has no root list after the second marker
extension_part(members, i, additions, roots) ==
    /\ i <= Len(members)
    /\ members[i].kind = "ellipsis"
    /\ LET j == delimited_list_end(members, i + 1, additions)
       IN  \/ j = Len(members) + 1
           \/ /\ members[j].kind = "ellipsis"
              /\ \/ j = Len(members)
                 \/ /\ roots # {}
                    /\ delimited_list_end(members, j + 1, roots)
                           = Len(members) + 1

\* the members of every [[ ]] group are a delimitedList of the kinds
groups_match(members, kinds) ==
    \A i \in 1..Len(members) :
        members[i].kind = "group" =>
            /\ members[i].members # << >>
            /\ delimited_list_end(members[i].members, 1, kinds)
                   = Len(members[i].members) + 1

\* Optional(component_type_lists
\*          | (extension_and_exception + optional_extension_marker))
\* matches all the items between the braces of SEQUENCE or SET
component_type_lists_match(members) ==
    /\ groups_match(members, ComponentKinds)
    /\ LET r == delimited_list_end(members, 1, ComponentKinds)
       IN  \/ members = << >>
           \/ /\ r > 1
              /\ \/ r = Len(members) + 1
                 \/ extension_part(members, r, ComponentKinds \cup {"group"},
                                   ComponentKinds)
           \/ extension_part(members, 1, ComponentKinds \cup {"group"},
                             ComponentKinds)

\* alternative_type_lists matches all the items between the braces of CHOICE
alternative_type_lists_match(members) ==
    /\ groups_match(members, {"alternative"})
    /\ LET r == delimited_list_end(members, 1, {"alternative"})
       IN  /\ r > 1
           /\ \/ r = Len(members) + 1
              \/ extension_part(members, r, {"alternative", "group"}, {})

\* the members between the braces of SEQUENCE, SET and CHOICE
component_type_lists(members) ==
    then(first_raised([i \in 1..Len(members) |-> component_type(members[i])]),
         LAMBDA parsed : Returned(py_list(parsed)))

\* named_type: Group(identifier - tag - type_)
named_type(src) ==
    then(type_(src.type),
         LAMBDA typed :
             Returned(py_list(<<py_str(src.name), tag(src.tag), typed>>)))

\* the qualifiers of a member of SEQUENCE or SET
qualifiers_of(src) ==
    IF src.qualifier = << >> THEN Returned(py_list(<< >>))
    ELSE IF src.qualifier[1] = "OPTIONAL"
    THEN Returned(py_list(<<py_str("OPTIONAL")>>))
    ELSE then(value(src.qualifier[2]),
              LAMBDA default :
                  Returned(py_list(<<py_str("DEFAULT"), default>>)))

component_type(src) ==
    CASE src.kind = "ellipsis" -> Returned(py_str("..."))
      [] src.kind = "components_of" ->
             then(type_(src.type),
                  LAMBDA typed :
                      Returned(py_list(<<py_str("COMPONENTS OF"), typed>>)))
      [] src.kind = "group" ->
             then(component_type_lists(src.members),
                  LAMBDA grouped :
                      Returned(py_list(<<py_str("[["), grouped,
                                         py_str("]]")>>)))
      [] src.kind = "alternative" -> named_type(src)
      [] OTHER ->
             then(named_type(src),
                  LAMBDA named :
                      then(qualifiers_of(src),
                           LAMBDA qualifiers :
                               Returned(py_list(<<named, qualifiers>>))))

\* keyword { members }: the tokens handed to the parse action
\* keyword { members }: the tokens handed to the parse action
braced(keyword, src) ==
    IF IF keyword = "CHOICE" THEN ~alternative_type_lists_match(src.members)
       ELSE ~component_type_lists_match(src.members)
    THEN Raised("ParseSyntaxException")
    ELSE then(component_type_lists(src.members),
              LAMBDA members :
                  Returned(py_list(<<py_str(keyword), py_str("{"), members,
                                     py_str("}")>>)))

builtin_type(src) ==
    CASE src.production = "integer_type" ->
             Returned(convert_integer_type(py_list(<<py_str("INTEGER"),
                                                     py_list(<< >>)>>)))
      [] src.production = "boolean_type" ->
             Returned(convert_boolean_type(py_list(<<py_str("BOOLEAN")>>)))
      [] src.production = "enumerated_type" ->
             convert_enumerated_type(EnumString, src.location,
                                     <<"ENUMERATED", "{", src.enumerations,
                                       "}">>)
      [] src.production = "sequence_type" ->
             then(braced("SEQUENCE", src),
                  LAMBDA tokens : convert_sequence_type(tokens))
      [] src.production = "set_type" ->
             then(braced("SET", src),
                  LAMBDA tokens : convert_set_type(tokens))
      [] src.production = "choice_type" ->
             then(braced("CHOICE", src),
                  LAMBDA tokens : convert_choice_type(tokens))
      [] OTHER -> Returned(convert_defined_type(py_list(<<py_str(src.name)>>)))

\* type_: Group(type + Group(ZeroOrMore(constraint)))
type_(src) ==
    then(builtin_type(src),
         LAMBDA converted :
             then(first_raised([i \in 1..Len(src.constraints) |->
                                   elements(src.constraints[i])]),
                  LAMBDA constraints :
                      Returned(py_list(<<converted, py_list(constraints)>>))))

(***************************************************************************)
(* Conversion of assignments, imports and modules.                         *)
(***************************************************************************)
\* str.islower() of one character
islower(c) ==
    c \in {"a", "b", "c", "d", "e", "f", "g", "h", "i", "j", "k", "l", "m",
           "n", "o", "p", "q", "r", "s", "t", "u", "v", "w", "x", "y", "z"}

\* one turn of the loop of convert_parameterized_object_class_assignment:
\* member[0] is the field reference, '&' and a name
convert_object_class_member(member) ==
    LET named(converted_member) ==
            py_dict(update(converted_member.dict, [name |-> at(member, 0)]))
        unwrapped(converted_member) ==
            IF isinstance(converted_member, "Tokens")
            THEN at(converted_member, 0)
            ELSE converted_member
    IN  IF islower(at(member, 0).text[2])
        THEN named(unwrapped(at(at(member, 1), 0)))
        ELSE named(py_dict([type |-> py_str("OpenType")]))

convert_parameterized_object_class_assignment(tokens) ==
    py_tuple(<<py_str("parameterized-object-class-assignment"),
               at(tokens, 0),
               py_dict([members |->
                   py_list([i \in 1..len(at(tokens, 3)) |->
                               convert_object_class_member(
                                   at(at(tokens, 3), i - 1))])])>>)

convert_parameterized_type_assignment(tokens) ==
    LET tag_or_none(converted_tag) ==
            IF converted_tag.exc = "ValueError" THEN None
            ELSE converted_tag.val
        with_tag(converted_type, tag_) ==
            IF truth(tag_)
            THEN py_dict(update(converted_type.dict, [tag |-> tag_]))
            ELSE converted_type
    IN  py_tuple(<<py_str("parameterized-type-assignment"),
                   at(tokens, 0),
                   with_tag(convert_type(at(tokens, 3)),
                            tag_or_none(convert_tag(at(tokens, 2))))>>)

convert_parameterized_value_assignment(tokens) ==
    LET first == at(at(at(tokens, 1), 0), 0)
        type__ == IF isinstance(first, "Tokens") THEN at(first, 0)
                  ELSE IF isinstance(first, "dict") THEN first.dict["type"]
                  ELSE first
    IN  then(convert_value(at(tokens, 2), type__),
             LAMBDA value_ :
                 Returned(py_tuple(<<py_str("parameterized-value-assignment"),
                                     at(tokens, 0),
                                     py_dict([type |-> type__,
                                              value |-> value_])>>)))

\* imports[from_name] = from_tokens[0], group after group
RECURSIVE convert_imports_loop(_, _)
convert_imports_loop(imports_, tokens) ==
    IF tokens = << >> THEN imports_
    ELSE convert_imports_loop(
             update(imports_,
                    at(Head(tokens), 2).str :> at(Head(tokens), 0)),
             Tail(tokens))

convert_imports(tokens) ==
    py_dict([imports |-> py_dict(convert_imports_loop(<< >>, tokens.list))])

\* a record of LOGGER.warning(text, name)
Warning(text, name) == [msg |-> text, name |-> name]

\* mapping[name] = value keeping the value the name already has
assign_keeping_first(mapping, name, value_) ==
    IF name \in DOMAIN mapping THEN mapping
    ELSE [k \in DOMAIN mapping \cup {name} |->
             IF k = name THEN value_ ELSE mapping[k]]

\* mapping[name] = value
assign(mapping, name, value_) ==
    [k \in DOMAIN mapping \cup {name} |->
        IF k = name THEN value_ ELSE mapping[k]]

\* one round of the loop of convert_assignment_list over (kind, name, value)
convert_assignment_step(st, token) ==
    LET kind == at(token, 0).str
        name == at(token, 1).str
        value_ == at(token, 2)
        warned(mapping, text) ==
            IF name \in DOMAIN mapping
            THEN Append(st.warnings, Warning(text, name))
            ELSE st.warnings
    IN  IF kind = "parameterized-object-set-assignment"
        THEN [st EXCEPT
                 !.warnings = warned(st.object_sets,
                                     "Object set '%s' already defined."),
                 !.object_sets = assign(@, name, value_)]
        ELSE IF kind = "parameterized-object-assignment"
        THEN [st EXCEPT
                 !.warnings = warned(st.values,
                                     "Object '%s' already defined."),
                 !.values = assign(@, name, value_)]
        ELSE IF kind = "parameterized-object-class-assignment"
        THEN [st EXCEPT
                 !.warnings = warned(st.object_classes,
                                     "Object class '%s' already defined."),
                 !.object_classes = assign(@, name, value_)]
        ELSE IF kind = "parameterized-type-assignment"
        THEN [st EXCEPT
                 !.warnings = warned(st.types,
                                     "Type '%s' already defined."),
                 !.types = assign(@, name, value_)]
        ELSE IF kind = "parameterized-value-assignment"
        THEN [st EXCEPT
                 !.warnings = warned(st.values,
                                     "Value '%s' already defined."),
                 !.values = assign(@, name, value_)]
        ELSE [st EXCEPT !.exc = "InternalParserError"]

RECURSIVE convert_assignment_loop(_, _)
convert_assignment_loop(st, tokens) ==
    IF tokens = << >> \/ st.exc # "" THEN st
    ELSE convert_assignment_loop(convert_assignment_step(st, Head(tokens)),
                                 Tail(tokens))

\* the outcome and the warnings logged, in order
convert_assignment_list(tokens) ==
    LET returned(st) ==
            IF st.exc # "" THEN [exc |-> st.exc, warnings |-> st.warnings]
            ELSE [exc |-> "",
                  warnings |-> st.warnings,
                  val |-> py_dict(
                      ("types" :> py_dict(st.types))
                      @@ ("values" :> py_dict(st.values))
                      @@ ("object-classes" :> py_dict(st.object_classes))
                      @@ ("object-sets" :> py_dict(st.object_sets)))]
    IN  returned(convert_assignment_loop(
                     [exc |-> "", warnings |-> << >>,
                      types |-> << >>, values |-> << >>,
                      object_classes |-> << >>, object_sets |-> << >>],
                     tokens.list))

RECURSIVE merge_dicts(_)
merge_dicts(dicts) ==
    IF dicts = << >> THEN << >>
    ELSE update(merge_dicts(SubSeq(dicts, 1, Len(dicts) - 1)),
                dicts[Len(dicts)].dict)

convert_module_body(tokens) == py_dict(merge_dicts(tokens.list))

convert_module_definition(tokens) ==
    LET module == update(at(at(tokens, 1), 0).dict,
                         "extensibility-implied" :>
                             py_bool(at(at(tokens, 0), 3) # py_list(<< >>)))
    IN  py_dict(at(at(tokens, 0), 0).str :>
                    py_dict(IF truth(at(at(tokens, 0), 2))
                            THEN update(module,
                                        [tags |-> at(at(at(tokens, 0), 2), 0)])
                            ELSE module))

convert_specification(tokens) == py_dict(merge_dicts(tokens.list))

(***************************************************************************)
(* The pyparsing grammar, continued: assignments, imports and modules.     *)
(* The outcome of a module carries the warnings logged while matching it.  *)
(***************************************************************************)
parameterized_type_assignment(src) ==
    then(type_(src.type),
         LAMBDA typed :
             Returned(convert_parameterized_type_assignment(
                 py_list(<<py_str(src.name), py_str("::="), tag(src.tag),
                           typed>>))))

parameterized_value_assignment(src) ==
    then(type_(src.type),
         LAMBDA typed :
             then(value(src.value),
                  LAMBDA valued :
                      convert_parameterized_value_assignment(
                          py_list(<<py_str(src.name), py_list(<<typed>>),
                                    valued>>))))

\* field_spec: Group(type_field_spec | fixed_type_value_field_spec)
field_spec(src) ==
    IF src.kind = "type_field_spec"
    THEN Returned(py_list(<<py_text(src.name)>>))
    ELSE then(type_(src.type),
              LAMBDA typed : Returned(py_list(<<py_text(src.name), typed>>)))

\* object_class_reference + parameter_list + assign + CLASS { fields }
parameterized_object_class_assignment(src) ==
    then(first_raised([i \in 1..Len(src.fields) |-> field_spec(src.fields[i])]),
         LAMBDA fields :
             Returned(convert_parameterized_object_class_assignment(
                 py_list(<<py_str(src.name), py_str("::="), py_str("CLASS"),
                           py_list(fields)>>))))

\* Only type and value assignments get this far: the Transformer raises on
\* every other assignment before this grammar is run.
assignment(src) ==
    IF src.production = "parameterized_type_assignment"
    THEN parameterized_type_assignment(src)
    ELSE IF src.production = "parameterized_object_class_assignment"
    THEN parameterized_object_class_assignment(src)
    ELSE parameterized_value_assignment(src)

assignment_list(srcs) ==
    then(first_raised([i \in 1..Len(srcs) |-> assignment(srcs[i])]),
         LAMBDA parsed : convert_assignment_list(py_list(parsed)))

\* Group(symbol_list + FROM + global_module_reference)
symbols_from_module(src) ==
    py_list(<<py_list([i \in 1..Len(src.symbols) |-> py_str(src.symbols[i])]),
              py_str("FROM"), py_str(src.from)>>)

\* Optional(IMPORTS - OneOrMore(group) - ';')
imports(src) ==
    IF ~src.written THEN Returned(convert_imports(py_list(<< >>)))
    ELSE IF src.groups = << >> THEN Raised("ParseSyntaxException")
    ELSE Returned(convert_imports(
             py_list([i \in 1..Len(src.groups) |->
                         symbols_from_module(src.groups[i])])))

module_body(src) ==
    LET merged(imported, assigned) ==
            IF assigned.exc # "" THEN assigned
            ELSE [exc |-> "",
                  warnings |-> assigned.warnings,
                  val |-> convert_module_body(
                              py_list(<<imported, assigned.val>>))]
    IN  then(imports(src.imports),
             LAMBDA imported :
                 merged(imported, assignment_list(src.assignments)))

words(texts) == py_list([i \in 1..Len(texts) |-> py_str(texts[i])])

module_definition(src) ==
    LET defined(body) ==
            IF body.exc # "" THEN body
            ELSE [exc |-> "",
                  warnings |-> body.warnings,
                  val |-> convert_module_definition(
                              py_list(<<py_list(<<py_str(src.name),
                                                  py_list(<< >>),
                                                  words(src.tag_default),
                                                  words(src.extension_default)>>),
                                        py_list(<<body.val>>)>>))]
    IN  defined(module_body(src))

\* the warnings of the modules matched before the first raise
RECURSIVE warnings_of(_)
warnings_of(outcomes) ==
    IF outcomes = << >> \/ Head(outcomes).exc # "" THEN << >>
    ELSE Head(outcomes).warnings \o warnings_of(Tail(outcomes))

\* OneOrMore(module_definition) + StringEnd()
specification(srcs) ==
    LET merged(modules, matched) ==
            IF matched.exc # ""
            THEN [exc |-> matched.exc,
                  raised |-> matched,
                  warnings |-> warnings_of(modules)]
            ELSE [exc |-> "",
                  warnings |-> warnings_of(modules),
                  val |-> py_list(<<convert_specification(
                                        py_list(matched.val))>>)]
        matched_all(modules) == merged(modules, first_raised(modules))
    IN  matched_all([i \in 1..Len(srcs) |-> module_definition(srcs[i])])

(***************************************************************************)
(* The textparser grammar of Asn1Parser, as the set of sources it accepts, *)
(* and the length of the node it builds for an assignment: a tp.Tag is a   *)
(* pair, a Sequence has one element per pattern.                           *)
(***************************************************************************)
\* the NUMBER token: -?\d+
NUMBER(chars) == is_numeral(chars) /\ chars[1] # "+"

Asn1Parser_tag(src) == ~src.written \/ NUMBER(src.number)

Asn1Parser_value(src) ==
    CASE src.production = "real_number" -> NUMBER(src.text)
      [] src.production = "bstring" -> bstring(src.text)
      [] src.production = "hstring" -> hstring(src.text)
      [] OTHER -> TRUE

RECURSIVE Asn1Parser_elements(_)

\* element_set_spec: choice(unions, Sequence('ALL', exclusions)), so
\* ALL EXCEPT stands alone, before `, ...` at most
Asn1Parser_element_set_spec(elements_) ==
    \A i \in 1..Len(elements_) :
        elements_[i].kind = "all_except" =>
            /\ i = 1
            /\ \A j \in 2..Len(elements_) : elements_[j].kind = "ellipsis"

Asn1Parser_elements(src) ==
    CASE src.kind = "value_range" -> NUMBER(src.lower) /\ NUMBER(src.upper)
      [] src.kind = "single_value" -> Asn1Parser_value(src.value)
      [] src.kind = "exclusion" ->
             \* unions has no exclusions: EXCEPT is met where a mark or the
             \* closing parenthesis is expected
             FALSE
      [] src.kind = "all_except" -> Asn1Parser_elements(src.excluded)
      [] src.kind \in {"parenthesized", "size_constraint"} ->
             /\ src.elements # << >>
             /\ src.elements[1].kind # "ellipsis"
             /\ src.kind = "parenthesized"
                => \A i \in 1..Len(src.elements) :
                       src.elements[i].kind # "ellipsis"
             /\ Asn1Parser_element_set_spec(src.elements)
             /\ \A i \in 1..Len(src.elements) :
                    Asn1Parser_elements(src.elements[i])
      [] OTHER -> TRUE

RECURSIVE Asn1Parser_type(_)
RECURSIVE Asn1Parser_component_type(_)

\* tp.Optional(choice(component_type_lists,
\*                    Sequence(extension_and_exception,
\*                             optional_extension_marker)))
Asn1Parser_component_type_lists(members) ==
    /\ groups_match(members, ComponentKinds)
    /\ LET r == delimited_list_end(members, 1, ComponentKinds)
       IN  \/ members = << >>
           \/ /\ r > 1
              /\ \/ r = Len(members) + 1
                 \/ extension_part(members, r, ComponentKinds \cup {"group"},
                                   ComponentKinds)
           \/ extension_part(members, 1, ComponentKinds \cup {"group"},
                             ComponentKinds)

Asn1Parser_alternative_type_lists(members) ==
    /\ groups_match(members, {"alternative"})
    /\ LET r == delimited_list_end(members, 1, {"alternative"})
       IN  /\ r > 1
           /\ \/ r = Len(members) + 1
              \/ extension_part(members, r, {"alternative", "group"}, {})

Asn1Parser_component_type(src) ==
    CASE src.kind = "ellipsis" -> TRUE
      [] src.kind = "components_of" -> Asn1Parser_type(src.type)
      [] src.kind = "group" ->
             /\ src.members # << >>
             /\ \A i \in 1..Len(src.members) :
                    Asn1Parser_component_type(src.members[i])
      [] src.kind = "alternative" ->
             Asn1Parser_tag(src.tag) /\ Asn1Parser_type(src.type)
      [] OTHER ->
             /\ Asn1Parser_tag(src.tag)
             /\ Asn1Parser_type(src.type)
             /\ \/ Len(src.qualifier) < 2
                \/ Asn1Parser_value(src.qualifier[2])

Asn1Parser_type(src) ==
    /\ Asn1Parser_element_set_spec(src.constraints)
    /\ \A i \in 1..Len(src.constraints) :
           Asn1Parser_elements(src.constraints[i])
    /\ \/ src.production \notin {"sequence_type", "set_type", "choice_type"}
       \/ /\ IF src.production = "choice_type"
             THEN Asn1Parser_alternative_type_lists(src.members)
             ELSE Asn1Parser_component_type_lists(src.members)
          /\ \A i \in 1..Len(src.members) :
                 Asn1Parser_component_type(src.members[i])

Asn1Parser_assignment(src) ==
    CASE src.production = "parameterized_type_assignment" ->
             Asn1Parser_tag(src.tag) /\ Asn1Parser_type(src.type)
      [] src.production = "parameterized_value_assignment" ->
             /\ src.parameters = << >>
             /\ Asn1Parser_type(src.type)
             /\ Asn1Parser_value(src.value)
      [] src.production = "parameterized_object_class_assignment" ->
             /\ src.fields # << >>
             /\ \A i \in 1..Len(src.fields) :
                    \/ src.fields[i].kind = "type_field_spec"
                    \/ Asn1Parser_type(src.fields[i].type)
      [] OTHER -> TRUE

\* the elements of the node of an assignment in the token tree
Asn1Parser_assignment_length(src) ==
    CASE src.production = "parameterized_type_assignment" -> 2
      [] src.production = "parameterized_value_assignment" -> 2
      [] src.production = "parameterized_object_class_assignment" -> 4
      [] OTHER -> 5

\* Asn1Parser().parse(string, token_tree=True) returns a tree
Asn1Parser_parse(srcs) ==
    \A m \in 1..Len(srcs) :
        \A i \in 1..Len(srcs[m].assignments) :
            Asn1Parser_assignment(srcs[m].assignments[i])

(***************************************************************************)
(* Transformer: setup_lookup_modules unpacks every assignment node into    *)
(* (tag, assignment); transform then returns the empty self._modules.      *)
(***************************************************************************)
setup_lookup_modules(srcs) ==
    IF \E m \in 1..Len(srcs) :
           \E i \in 1..Len(srcs[m].assignments) :
               Asn1Parser_assignment_length(srcs[m].assignments[i]) # 2
    THEN Raised("ValueError")
    ELSE Returned(None)

transform(srcs) ==
    LET lookup_modules == setup_lookup_modules(srcs)
    IN  IF lookup_modules.exc # "" THEN lookup_modules
        ELSE Returned(py_dict(<< >>))

(***************************************************************************)
(* The sources explored: syntax trees of one or two modules.               *)
(***************************************************************************)
MaxMembers == 2      \* members of a SEQUENCE, SET or CHOICE
MaxAssignments == 2  \* assignments of a module
MaxGroups == 2       \* FROM groups of an IMPORTS clause
MaxItems == 2        \* items of an enumeration inside a module

MaxFields == 2       \* field specs of an object class

MaxShape == 4        \* items of a component list with markers and groups

MaxParameters == 2   \* parameters of a parameterized assignment

NoTag == [written |-> FALSE]

WrittenTag(class, number, kind) ==
    [written |-> TRUE, class |-> class, number |-> number, kind |-> kind]

TagNumbers == {<<"2">>, <<"1", "0">>, <<"-", "1">>, <<"x">>}

TagSrcs ==
    {NoTag} \cup {WrittenTag(c, n, k) :
                     c \in {"", "UNIVERSAL", "APPLICATION", "PRIVATE"},
                     n \in TagNumbers,
                     k \in {"", "IMPLICIT", "EXPLICIT"}}

Numerals == {<<"1">>, <<"5">>, <<"1", "0">>, <<"-", "1">>}

RealNumber(text) == [production |-> "real_number", text |-> text]

ValueSrcs ==
    {RealNumber(n) : n \in Numerals}
    \cup {[production |-> "enumerated_value", name |-> "b"],
          [production |-> "boolean_value", name |-> "TRUE"],
          [production |-> "boolean_value", name |-> "FALSE"],
          [production |-> "bstring", text |-> <<"'", "0", "1", "'", "B">>],
          [production |-> "hstring", text |-> <<"'", "A", "9", "'", "H">>]}

ValueRange(minimum, maximum) ==
    [kind |-> "value_range", lower |-> minimum, upper |-> maximum]

SingleValue(v) == [kind |-> "single_value", value |-> v]

Ellipsis == [kind |-> "ellipsis"]

ValueRanges == {ValueRange(l, u) : l \in Numerals, u \in Numerals}

ConstraintSrcs ==
    {<< >>}
    \cup {<<r>> : r \in ValueRanges}
    \cup {<<r, Ellipsis>> : r \in ValueRanges}
    \cup {<<SingleValue(RealNumber(n))>> : n \in Numerals}
    \cup {<<ValueRange(<<"1">>, <<"5">>), r>> : r \in ValueRanges}

\* ( elements ) as one element of a constraint
Parenthesized(elements_) == [kind |-> "parenthesized", elements |-> elements_]

\* SIZE ( elements )
SizeConstraint(elements_) ==
    [kind |-> "size_constraint", elements |-> elements_]

\* A EXCEPT B
Exclusion(element, excluded) ==
    [kind |-> "exclusion", element |-> element, excluded |-> excluded]

\* ALL EXCEPT B
AllExcept(excluded) == [kind |-> "all_except", excluded |-> excluded]

\* constraints whose element set uses EXCEPT
ExceptConstraintSrcs ==
    {<<Exclusion(a, SingleValue(RealNumber(n)))>> :
        a \in {ValueRange(<<"1">>, <<"5">>), SingleValue(RealNumber(<<"5">>))},
        n \in Numerals}
    \cup {<<AllExcept(b)>> :
             b \in {ValueRange(<<"1">>, <<"5">>)}
                   \cup {SingleValue(RealNumber(n)) : n \in Numerals}}

\* constraints with an element in parentheses or a SIZE constraint
NestedConstraintSrcs ==
    {<<Parenthesized(<<r>>)>> : r \in ValueRanges}
    \cup {<<SingleValue(RealNumber(<<"1">>)),
            Parenthesized(<<ValueRange(<<"1">>, <<"5">>), s>>)>> :
             s \in {SingleValue(RealNumber(n)) : n \in Numerals}}
    \cup {<<Parenthesized(<<Parenthesized(<<r>>)>>)>> :
             r \in {ValueRange(<<"1">>, <<"5">>)}}
    \cup {<<SizeConstraint(c)>> :
             c \in {<<r>> : r \in ValueRanges}
                   \cup {<<SingleValue(RealNumber(<<"5">>))>>,
                         <<ValueRange(<<"1">>, <<"5">>), Ellipsis>>}}
    \cup {<<SizeConstraint(<<SingleValue(RealNumber(<<"5">>))>>), r>> :
             r \in {ValueRange(<<"1">>, <<"5">>),
                    SingleValue(RealNumber(<<"1">>)), Ellipsis}}

IntegerType(constraints) ==
    [production |-> "integer_type", constraints |-> constraints]

BooleanType == [production |-> "boolean_type", constraints |-> << >>]

DefinedType(name) ==
    [production |-> "defined_type", constraints |-> << >>, name |-> name]

EnumeratedType(enumerations) ==
    [production |-> "enumerated_type", constraints |-> << >>,
     enumerations |-> enumerations, location |-> 2]

ConstructedType(production, members) ==
    [production |-> production, constraints |-> << >>, members |-> members]

SimpleTypes ==
    {IntegerType(c) :
        c \in ConstraintSrcs \cup NestedConstraintSrcs
              \cup ExceptConstraintSrcs}
    \cup {BooleanType, DefinedType("B")}

EnumeratedTypes ==
    {EnumeratedType(t) :
        t \in {e \in EnumTokens : Len(e[1]) <= MaxItems
                                  /\ Len(e[2]) <= MaxItems}}

ComponentType(name, tag_, type__, qualifier) ==
    [kind |-> "component_type", name |-> name, tag |-> tag_,
     type |-> type__, qualifier |-> qualifier]

Alternative(name, tag_, type__) ==
    [kind |-> "alternative", name |-> name, tag |-> tag_, type |-> type__]

ExtensionGroup(members) == [kind |-> "group", members |-> members]

ComponentsOf(type__) == [kind |-> "components_of", type |-> type__]

PlainTypes == {IntegerType(<< >>), BooleanType}

PlainMembers ==
    {ComponentType(n, NoTag, t, q) :
        n \in {"a", "b"}, t \in PlainTypes, q \in {<< >>, <<"OPTIONAL">>}}

PlainAlternatives ==
    {Alternative(n, NoTag, t) : n \in {"a", "b"}, t \in PlainTypes}

\* a member with every tag, and a member with every default
QualifiedMembers ==
    {ComponentType("a", t, IntegerType(<< >>), << >>) : t \in TagSrcs}
    \cup {ComponentType("a", NoTag, t, <<"DEFAULT", v>>) :
             t \in PlainTypes, v \in ValueSrcs}

\* member lists with an extension marker, a group or COMPONENTS OF
MarkedMemberLists ==
    {<<m, Ellipsis>> : m \in PlainMembers}
    \cup {<<m, Ellipsis, n>> : m \in PlainMembers, n \in PlainMembers}
    \cup {<<m, Ellipsis, ExtensionGroup(ms)>> :
             m \in {ComponentType("a", NoTag, BooleanType, << >>)},
             ms \in NonEmptySeqsUpTo(PlainMembers, MaxMembers)}
    \cup {<<ComponentsOf(DefinedType("B")), m>> : m \in PlainMembers}

\* the item at place i of a component list: a member, `...`, or a group
\* of one member
ShapedItem(symbol, i, production) ==
    LET member == IF production = "choice_type"
                  THEN Alternative(ItemNames[i], NoTag, BooleanType)
                  ELSE ComponentType(ItemNames[i], NoTag, BooleanType, << >>)
    IN  CASE symbol = "..." -> Ellipsis
          [] symbol = "[[" -> ExtensionGroup(<<member>>)
          [] symbol = "[[...]]" -> ExtensionGroup(<<member, Ellipsis>>)
          [] OTHER -> member

\* every placement of members, markers and groups in a short component
\* list, and a marker inside a group
ShapedTypes ==
    {ConstructedType(p, [i \in 1..Len(s) |-> ShapedItem(s[i], i, p)]) :
        p \in {"sequence_type", "set_type", "choice_type"},
        s \in SeqsUpTo({"m", "...", "[["}, MaxShape)
              \cup {<<"m", "...", "[[...]]">>}}

ConstructedTypes ==
    {ConstructedType(p, ms) :
        p \in {"sequence_type", "set_type"},
        ms \in SeqsUpTo(PlainMembers, MaxMembers)
               \cup {<<m>> : m \in QualifiedMembers}
               \cup MarkedMemberLists}
    \cup {ConstructedType("choice_type", ms) :
             ms \in SeqsUpTo(PlainAlternatives, MaxMembers)
                    \cup {<<Alternative("a", t, BooleanType)>> : t \in TagSrcs}
                    \cup {<<a, Ellipsis, ExtensionGroup(as)>> :
                             a \in {Alternative("a", NoTag, BooleanType)},
                             as \in NonEmptySeqsUpTo(PlainAlternatives,
                                                     MaxMembers)}}
    \cup {ConstructedType("sequence_type",
                          <<ComponentType("a", NoTag, e, << >>)>>) :
             e \in {EnumeratedType(t) :
                       t \in {<< <<<<"a">>, <<"b", "(", 0, ")">> >>, << >> >>,
                              << <<<<"a", "(", 1, ")">>, <<"b", "(", 1, ")">> >>,
                                 << >> >>}}}

TypeAssignment(name, tag_, type__) ==
    [production |-> "parameterized_type_assignment", name |-> name,
     tag |-> tag_, type |-> type__]

\* valuereference { Parameter, ... } Type ::= Value
ParameterizedValueAssignment(name, parameters, type__, value_) ==
    [production |-> "parameterized_value_assignment", name |-> name,
     parameters |-> parameters, type |-> type__, value |-> value_]

ValueAssignment(name, type__, value_) ==
    ParameterizedValueAssignment(name, << >>, type__, value_)

\* &Name: a type field
TypeFieldSpec(name) == [kind |-> "type_field_spec", name |-> name]

\* &name Type: a fixed-type value field
FixedTypeValueFieldSpec(name, type__) ==
    [kind |-> "fixed_type_value_field_spec", name |-> name, type |-> type__]

FieldSpecs ==
    {TypeFieldSpec(<<"&", "T">>), TypeFieldSpec(<<"&", "U">>),
     FixedTypeValueFieldSpec(<<"&", "i">>, IntegerType(<< >>)),
     FixedTypeValueFieldSpec(<<"&", "b">>, BooleanType)}

\* C ::= CLASS { fields }
ObjectClassDefn(name, fields) ==
    [production |-> "parameterized_object_class_assignment", name |-> name,
     fields |-> fields]

\* C ::= CLASS { &Type }
ObjectClassAssignment(name) ==
    ObjectClassDefn(name, <<TypeFieldSpec(<<"&", "T">>)>>)

\* o C ::= { &Type INTEGER }
ObjectAssignment(name, class) ==
    [production |-> "parameterized_object_assignment", name |-> name,
     class |-> class]

\* S C ::= { o }
ObjectSetAssignment(name, class) ==
    [production |-> "parameterized_object_set_assignment", name |-> name,
     class |-> class]

NoImports == [written |-> FALSE, groups |-> << >>]

Imports(groups) == [written |-> TRUE, groups |-> groups]

SymbolsFromModule(symbols, from) == [symbols |-> symbols, from |-> from]

ImportGroups ==
    {SymbolsFromModule(s, f) :
        s \in {<<"X">>, <<"Y">>, <<"X", "Y">>}, f \in {"N", "P"}}

ImportSrcs ==
    {NoImports} \cup {Imports(g) : g \in SeqsUpTo(ImportGroups, MaxGroups)}

TagDefaults ==
    {<< >>} \cup {<<k, "TAGS">> : k \in {"AUTOMATIC", "EXPLICIT", "IMPLICIT"}}

ExtensionDefaults == {<< >>, <<"EXTENSIBILITY IMPLIED">>}

Module(name, tag_default, extension_default, imports_, assignments) ==
    [name |-> name, tag_default |-> tag_default,
     extension_default |-> extension_default, imports |-> imports_,
     assignments |-> assignments]

PlainModule(name, assignments) ==
    Module(name, << >>, << >>, NoImports, assignments)

\* the assignments that modules of several assignments are made of
BasicAssignments ==
    {TypeAssignment("A", NoTag, IntegerType(<< >>)),
     TypeAssignment("A", NoTag, BooleanType),
     TypeAssignment("B", NoTag, IntegerType(<< >>)),
     TypeAssignment("B", NoTag,
                    EnumeratedType(<< <<<<"a", "(", 1, ")">>,
                                        <<"b", "(", 1, ")">> >>, << >> >>)),
     ValueAssignment("a", IntegerType(<< >>), RealNumber(<<"1">>)),
     ValueAssignment("a", BooleanType,
                     [production |-> "boolean_value", name |-> "TRUE"]),
     ObjectClassAssignment("C"),
     ObjectAssignment("o", "C"),
     ObjectSetAssignment("S", "C")}

\* every header and every IMPORTS clause around one type
HeaderSources ==
    {<<Module("M", t, e, i, <<TypeAssignment("A", NoTag, IntegerType(<< >>))>>)>> :
        t \in TagDefaults, e \in ExtensionDefaults, i \in ImportSrcs}

\* every list of assignments, with and without a tag default
AssignmentSources ==
    {<<Module("M", t, << >>, NoImports, a)>> :
        t \in {<< >>, <<"AUTOMATIC", "TAGS">>},
        a \in SeqsUpTo(BasicAssignments, MaxAssignments)}

\* every tag and every type in one type assignment
\* every tag and every type in one type assignment
TypeSources ==
    {<<Module("M", d, << >>, NoImports, <<TypeAssignment("A", t, y)>>)>> :
        d \in {<< >>, <<"IMPLICIT", "TAGS">>}, t \in TagSrcs, y \in PlainTypes}
    \cup {<<PlainModule("M", <<TypeAssignment("A", NoTag, y)>>)>> :
             y \in SimpleTypes \cup EnumeratedTypes \cup ConstructedTypes
                   \cup ShapedTypes}

\* every value under every plain type and under a referenced type
ValueSources ==
    {<<PlainModule("M", <<ValueAssignment("a", y, v)>>)>> :
        y \in PlainTypes \cup {DefinedType("B")}, v \in ValueSrcs}

\* two modules in one source, of the same name or not
TwoModuleSources ==
    {<<PlainModule("M", a), PlainModule(n, b)>> :
        n \in {"M", "N"},
        a \in {<<x, y>> : x \in {TypeAssignment("A", NoTag, BooleanType)},
                          y \in BasicAssignments},
        b \in {<<x>> : x \in BasicAssignments}}

\* every short list of field specs in one object class
ClassSources ==
    {<<PlainModule("M", <<ObjectClassDefn("C", f)>>)>> :
        f \in NonEmptySeqsUpTo(FieldSpecs, MaxFields)}

\* a value assignment with every short parameter list
\* a value assignment with every short parameter list
ParameterizedValueSources ==
    {<<PlainModule("M", <<ParameterizedValueAssignment("a", p, t[1], t[2])>>)>> :
        p \in NonEmptySeqsUpTo({"T", "U"}, MaxParameters),
        t \in {<<IntegerType(<< >>), RealNumber(<<"1">>)>>,
               <<BooleanType,
                 [production |-> "boolean_value", name |-> "TRUE"]>>}}

Sources ==
    HeaderSources \cup AssignmentSources \cup TypeSources \cup ValueSources
    \cup TwoModuleSources \cup ClassSources \cup ParameterizedValueSources

(***************************************************************************)
(* parse_string(string): the textparser stage, the Transformer, and the    *)
(* pyparsing stage.  Only tp.ParseError is caught around the first two,    *)
(* only ParseException and ParseSyntaxException around the third.          *)
(***************************************************************************)
ParseError(text) == [exc |-> "ParseError", msg |-> text]

Init ==
    /\ pc = "parse_string"
    /\ arg \in Sources
    /\ ret = Pending
    /\ log = << >>

\* parse_tree = Asn1Parser().parse(string, token_tree=True)
Asn1ParserParse ==
    /\ pc = "parse_string"
    /\ IF Asn1Parser_parse(arg)
       THEN pc' = "transform" /\ ret' = ret
       ELSE /\ pc' = "done"
            /\ ret' = ParseError(
                   "Invalid ASN.1 syntax at line {}, column {}: '{}'.")
    /\ UNCHANGED <<arg, log>>

\* modules = Transformer().transform(parse_tree)
TransformerTransform ==
    /\ pc = "transform"
    /\ LET modules == transform(arg)
       IN  IF modules.exc = ""
           THEN pc' = "parseString" /\ ret' = ret
           ELSE pc' = "done" /\ ret' = modules
    /\ UNCHANGED <<arg, log>>

\* tokens = grammar.parseString(string).asList(); return tokens[0]
GrammarParseString ==
    /\ pc = "parseString"
    /\ \E tokens \in {specification(arg)} :
           /\ ret' = IF tokens.exc = "" THEN Returned(at(tokens.val, 0))
                     ELSE IF tokens.exc \in {"ParseException",
                                             "ParseSyntaxException"}
                     THEN ParseError(
                              "Invalid ASN.1 syntax at line {}, column {}: '{}': {}.")
                     ELSE tokens.raised
           /\ log' = log \o tokens.warnings
    /\ pc' = "done"
    /\ UNCHANGED arg

Next == Asn1ParserParse \/ TransformerTransform \/ GrammarParseString

Spec == Init /\ [][Next]_vars

(***************************************************************************)
(* What a source declares, and what the returned tree holds for it.  When  *)
(* two modules of a source share a name, the tree holds the later one.     *)
(***************************************************************************)
ParseStringReturned == pc = "done" /\ ret.exc = ""

ModuleIndices ==
    {m \in 1..Len(arg) :
        \A n \in (m + 1)..Len(arg) : arg[n].name # arg[m].name}

ModuleRecord(m) == ret.val.dict[arg[m].name].dict

DeclaredNames(m, production) ==
    {arg[m].assignments[i].name :
        i \in {j \in 1..Len(arg[m].assignments) :
                  arg[m].assignments[j].production = production}}

RECURSIVE SymbolsFrom(_, _)
SymbolsFrom(groups, from) ==
    IF groups = << >> THEN << >>
    ELSE (IF Head(groups).from = from THEN Head(groups).symbols ELSE << >>)
         \o SymbolsFrom(Tail(groups), from)

ImportedFrom(m) ==
    {arg[m].imports.groups[i].from : i \in 1..Len(arg[m].imports.groups)}

\* the symbols the tree lists under imports[from]
ImportedSymbols(m, from) ==
    LET symbols == ModuleRecord(m)["imports"].dict[from].list
    IN  [i \in 1..Len(symbols) |-> symbols[i].str]

\* C1: for every module that declares no tag default and no EXTENSIBILITY
\* IMPLIED, the record returned under its name has 'extensibility-implied'
\* false, no 'tags', and the five keys 'imports', 'types', 'values',
\* 'object-classes' and 'object-sets', each holding exactly what the module
\* declares.
C1_Original ==
    ParseStringReturned =>
        \A m \in ModuleIndices :
            (arg[m].tag_default = << >> /\ arg[m].extension_default = << >>)
            => LET module == ModuleRecord(m)
               IN  /\ {"extensibility-implied", "imports", "types", "values",
                       "object-classes", "object-sets"} \subseteq DOMAIN module
                   /\ module["extensibility-implied"] = py_bool(FALSE)
                   /\ "tags" \notin DOMAIN module
                   /\ DOMAIN module["types"].dict =
                          DeclaredNames(m, "parameterized_type_assignment")
                   /\ DOMAIN module["values"].dict =
                          DeclaredNames(m, "parameterized_value_assignment")
                   /\ DOMAIN module["object-classes"].dict =
                          DeclaredNames(m,
                                        "parameterized_object_class_assignment")
                   /\ DOMAIN module["object-sets"].dict =
                          DeclaredNames(m,
                                        "parameterized_object_set_assignment")
                   /\ DOMAIN module["imports"].dict = ImportedFrom(m)
                   /\ \A from \in ImportedFrom(m) :
                          Range(ImportedSymbols(m, from)) =
                              Range(SymbolsFrom(arg[m].imports.groups, from))

\* C2: parse_string returns, or raises ParseError or InternalParserError;
\* no other exception class reaches the caller.
C2_Original ==
    pc = "done" => ret.exc \in {"", "ParseError", "InternalParserError"}

\* the named members of one member list have pairwise distinct names
NamesDistinct(members) ==
    \A i \in 1..Len(members) :
        \A j \in (i + 1)..Len(members) :
            (/\ isinstance(members[i], "dict")
             /\ isinstance(members[j], "dict")
             /\ "name" \in DOMAIN members[i].dict
             /\ "name" \in DOMAIN members[j].dict)
            => members[i].dict["name"] # members[j].dict["name"]

\* the descriptors of the types of the returned tree
ReturnedTypes ==
    {ModuleRecord(p[1])["types"].dict[p[2]].dict :
        p \in {q \in ModuleIndices \X {"A", "B"} :
                  q[2] \in DOMAIN ModuleRecord(q[1])["types"].dict}}

\* C5: in every SEQUENCE, SET and CHOICE descriptor parse_string returns,
\* the member names are pairwise distinct within the root member list and
\* within each extension addition group.
C5_Original ==
    ParseStringReturned =>
        \A descriptor \in ReturnedTypes :
            "members" \in DOMAIN descriptor =>
                LET members == descriptor["members"].list
                IN  /\ NamesDistinct(members)
                    /\ \A i \in 1..Len(members) :
                           isinstance(members[i], "list")
                           => NamesDistinct(members[i].list)

\* C6: in every INTEGER descriptor parse_string returns, every range of
\* 'restricted-to' with two integer endpoints has min <= max.
C6_Original ==
    ParseStringReturned =>
        \A descriptor \in ReturnedTypes :
            (/\ descriptor["type"] = py_str("INTEGER")
             /\ "restricted-to" \in DOMAIN descriptor)
            => LET ranges == descriptor["restricted-to"].list
               IN  \A i \in 1..Len(ranges) :
                       (/\ isinstance(ranges[i], "tuple")
                        /\ isinstance(ranges[i].tuple[1], "int")
                        /\ isinstance(ranges[i].tuple[2], "int"))
                       => ranges[i].tuple[1].int <= ranges[i].tuple[2].int

\* the descriptor holds the record of the tag written in src, or no 'tag'
\* when none was written
TagRecorded(descriptor, src) ==
    IF ~src.written THEN "tag" \notin DOMAIN descriptor
    ELSE /\ "tag" \in DOMAIN descriptor
         /\ isinstance(descriptor["tag"], "dict")
         /\ LET record == descriptor["tag"].dict
            IN  /\ DOMAIN record \subseteq {"number", "class", "kind"}
                /\ "number" \in DOMAIN record
                /\ isinstance(record["number"], "int")
                /\ record["number"].int = numeral_value(src.number)
                /\ ("class" \in DOMAIN record) <=> (src.class # "")
                /\ (src.class # "") => record["class"] = py_str(src.class)
                /\ ("kind" \in DOMAIN record) <=> (src.kind # "")
                /\ (src.kind # "") => record["kind"] = py_str(src.kind)

\* the type assignments whose descriptor the returned tree holds, each
\* with the index of its module
TypeAssignments ==
    {q \in ModuleIndices \X (1..MaxAssignments) :
        /\ q[2] <= Len(arg[q[1]].assignments)
        /\ arg[q[1]].assignments[q[2]].production =
               "parameterized_type_assignment"
        /\ \A k \in (q[2] + 1)..Len(arg[q[1]].assignments) :
               arg[q[1]].assignments[k].production =
                   "parameterized_type_assignment"
               => arg[q[1]].assignments[k].name #
                      arg[q[1]].assignments[q[2]].name}

\* C8: a tag written before a type, in a type assignment or before the
\* type of a member, gives a 'tag' record whose 'number' is an integer,
\* with 'class' exactly when a class was written and 'kind' exactly when
\* IMPLICIT or EXPLICIT was written, whatever the tag default of the
\* module; no tag written gives no 'tag' field.
C8_TagRecord ==
    ParseStringReturned =>
        \A q \in TypeAssignments :
            LET assignment_ == arg[q[1]].assignments[q[2]]
                descriptor ==
                    ModuleRecord(q[1])["types"].dict[assignment_.name].dict
                members == assignment_.type.members
            IN  /\ TagRecorded(descriptor, assignment_.tag)
                /\ assignment_.type.production
                       \in {"sequence_type", "set_type", "choice_type"}
                   => \A k \in 1..Len(members) :
                          members[k].kind \in {"component_type", "alternative"}
                          => TagRecorded(descriptor["members"].list[k].dict,
                                         members[k].tag)

\* a module with a tag default returns a type whose tag was written with a
\* class and without a kind
C8_Witness ==
    /\ ParseStringReturned
    /\ arg[1].tag_default = <<"IMPLICIT", "TAGS">>
    /\ Len(arg[1].assignments) = 1
    /\ arg[1].assignments[1].production = "parameterized_type_assignment"
    /\ arg[1].assignments[1].tag =
           WrittenTag("APPLICATION", <<"1", "0">>, "")
    /\ ModuleRecord(1)["types"].dict["A"].dict["tag"] =
           py_dict([number |-> py_int(10), class |-> py_str("APPLICATION")])

\* C9: imports[N] lists, in source order, every symbol of every group
\* `symbols FROM N` of the IMPORTS clause, also when several groups name N.
C9_Original ==
    ParseStringReturned =>
        \A m \in ModuleIndices :
            \A from \in ImportedFrom(m) :
                /\ from \in DOMAIN ModuleRecord(m)["imports"].dict
                /\ ImportedSymbols(m, from) =
                       SymbolsFrom(arg[m].imports.groups, from)

(***************************************************************************)
(* convert_assignment_list on every short list of (kind, name, value)      *)
(* tokens of the five assignment kinds.  The value of a token is its       *)
(* position, so that the assignments of one name can be told apart.        *)
(***************************************************************************)
MaxTokens == 3  \* tokens of an assignment list

AssignmentKinds ==
    {"parameterized-object-set-assignment",
     "parameterized-object-assignment",
     "parameterized-object-class-assignment",
     "parameterized-type-assignment",
     "parameterized-value-assignment"}

AssignmentLists ==
    UNION {[1..n -> AssignmentKinds \X {"x", "y"}] : n \in 0..MaxTokens}

AssignmentTokens(assignments) ==
    py_list([i \in 1..Len(assignments) |->
                py_tuple(<<py_str(assignments[i][1]),
                           py_str(assignments[i][2]), py_int(i)>>)])

InitAssignments ==
    /\ pc = "convert_assignment_list"
    /\ arg \in {AssignmentTokens(a) : a \in AssignmentLists}
    /\ ret = Pending
    /\ log = << >>

CallConvertAssignmentList ==
    /\ pc = "convert_assignment_list"
    /\ LET converted == convert_assignment_list(arg)
       IN  /\ ret' = IF converted.exc = "" THEN Returned(converted.val)
                     ELSE Raised(converted.exc)
           /\ log' = log \o converted.warnings
    /\ pc' = "returned"
    /\ UNCHANGED arg

NextAssignments == CallConvertAssignmentList

SpecAssignments == InitAssignments /\ [][NextAssignments]_vars

\* the mapping convert_assignment_list stores an assignment kind in
MappingOf(kind) ==
    CASE kind = "parameterized-object-set-assignment" -> "object-sets"
      [] kind = "parameterized-object-class-assignment" -> "object-classes"
      [] kind = "parameterized-type-assignment" -> "types"
      [] OTHER -> "values"

TokenKind(i) == arg.list[i].tuple[1].str

TokenName(i) == arg.list[i].tuple[2].str

TokenValue(i) == arg.list[i].tuple[3]

Mappings == {"types", "values", "object-classes", "object-sets"}

\* C10 as stated: every mapping holds, under every name, the descriptor of
\* the last assignment of that name and kind; every assignment that
\* repeats the name and kind of an earlier one logs one warning; none is
\* an error.
C10_Original ==
    pc = "returned" =>
        /\ ret.exc = ""
        /\ Mappings \subseteq DOMAIN ret.val.dict
        /\ \A i \in 1..Len(arg.list) :
               (\A j \in (i + 1)..Len(arg.list) :
                    ~(TokenKind(j) = TokenKind(i)
                      /\ TokenName(j) = TokenName(i)))
               => LET mapping == ret.val.dict[MappingOf(TokenKind(i))].dict
                  IN  /\ TokenName(i) \in DOMAIN mapping
                      /\ mapping[TokenName(i)] = TokenValue(i)
        /\ Len(log) =
               Cardinality({i \in 1..Len(arg.list) :
                               \E j \in 1..(i - 1) :
                                   /\ TokenKind(j) = TokenKind(i)
                                   /\ TokenName(j) = TokenName(i)})

\* C10 amended: every mapping holds, under every name, the descriptor of
\* the last assignment of that name stored in that mapping, object and
\* value assignments both being stored in 'values'; every assignment whose
\* name its mapping already holds logs one warning; none is an error and
\* every assignment is processed.
C10_Amended ==
    pc = "returned" =>
        /\ ret.exc = ""
        /\ DOMAIN ret.val.dict = Mappings
        /\ \A key \in Mappings :
               DOMAIN ret.val.dict[key].dict =
                   {TokenName(i) :
                       i \in {j \in 1..Len(arg.list) :
                                 MappingOf(TokenKind(j)) = key}}
        /\ \A i \in 1..Len(arg.list) :
               (\A j \in (i + 1)..Len(arg.list) :
                    ~(MappingOf(TokenKind(j)) = MappingOf(TokenKind(i))
                      /\ TokenName(j) = TokenName(i)))
               => ret.val.dict[MappingOf(TokenKind(i))].dict[TokenName(i)] =
                      TokenValue(i)
        /\ Len(log) =
               Cardinality({i \in 1..Len(arg.list) :
                               \E j \in 1..(i - 1) :
                                   /\ MappingOf(TokenKind(j)) =
                                          MappingOf(TokenKind(i))
                                   /\ TokenName(j) = TokenName(i)})
        /\ \A i \in 1..Len(log) :
               \E j \in 1..Len(arg.list) : log[i].name = TokenName(j)

\* an object x, a value x and a type x: the value replaces the object with
\* one warning, and the type after them is stored
C10_Witness ==
    /\ pc = "returned"
    /\ Len(arg.list) = 3
    /\ TokenKind(1) = "parameterized-object-assignment"
    /\ TokenKind(2) = "parameterized-value-assignment"
    /\ TokenKind(3) = "parameterized-type-assignment"
    /\ \A i \in 1..3 : TokenName(i) = "x"
    /\ ret.exc = ""
    /\ ret.val.dict["values"].dict["x"] = py_int(2)
    /\ ret.val.dict["types"].dict["x"] = py_int(3)
    /\ log = <<Warning("Value '%s' already defined.", "x")>>

(***************************************************************************)
(* Information object classes.                                             *)
(***************************************************************************)
\* the object class assignments of module m that no later assignment of
\* the module names again
ClassAssignments(m) ==
    {i \in 1..Len(arg[m].assignments) :
        /\ arg[m].assignments[i].production =
               "parameterized_object_class_assignment"
        /\ \A k \in (i + 1)..Len(arg[m].assignments) :
               arg[m].assignments[k].production =
                   "parameterized_object_class_assignment"
               => arg[m].assignments[k].name # arg[m].assignments[i].name}

\* C11: for every module with an object class assignment C ::= CLASS { ... }
\* of type-field specs and fixed-type-value-field specs, parse_string
\* returns a tree in which 'object-classes' maps C to a record with one
\* member per field spec, in source order.
C11_Original ==
    (pc = "done" /\ ret.exc # "ParseError") =>
        \A m \in ModuleIndices :
            \A i \in ClassAssignments(m) :
                /\ ret.exc = ""
                /\ LET class == arg[m].assignments[i]
                       members ==
                           ModuleRecord(m)["object-classes"]
                               .dict[class.name].dict["members"].list
                   IN  /\ Len(members) = Len(class.fields)
                       /\ \A k \in 1..Len(members) :
                              members[k].dict["name"] =
                                  py_text(class.fields[k].name)

(***************************************************************************)
(* The members of SEQUENCE, SET and CHOICE.                                *)
(***************************************************************************)
\* the type assignments of TypeAssignments whose type is a SEQUENCE, a SET
\* or a CHOICE
ConstructedAssignments ==
    {q \in TypeAssignments :
        arg[q[1]].assignments[q[2]].type.production
            \in {"sequence_type", "set_type", "choice_type"}}

\* the members written in the assignment q
WrittenMembers(q) == arg[q[1]].assignments[q[2]].type.members

\* the 'members' list the returned tree holds for the assignment q
ReturnedMembers(q) ==
    ModuleRecord(q[1])["types"]
        .dict[arg[q[1]].assignments[q[2]].name].dict["members"].list

\* the element is the descriptor of the named member src
NamedMember(element, src) ==
    /\ isinstance(element, "dict")
    /\ {"name", "type"} \subseteq DOMAIN element.dict
    /\ element.dict["name"] = py_str(src.name)

\* the element is what convert_members must hold for the item src
MemberConverted(element, src) ==
    CASE src.kind = "ellipsis" -> element = None
      [] src.kind = "components_of" ->
             element = py_dict("components-of" :> py_str(src.type.name))
      [] src.kind = "group" ->
             /\ isinstance(element, "list")
             /\ Len(element.list) = Len(src.members)
             /\ \A k \in 1..Len(src.members) :
                    NamedMember(element.list[k], src.members[k])
      [] OTHER -> NamedMember(element, src)

\* C12: the 'members' list of every SEQUENCE, SET and CHOICE has one
\* element per item of the component list, in source order: a descriptor
\* per named member, {components-of: T} per COMPONENTS OF T, the extension
\* marker per `...`, and a nested list per [[ ]] group, at the place of the
\* group, holding the members of the group.
C12_OneElementPerItem ==
    ParseStringReturned =>
        \A q \in ConstructedAssignments :
            /\ Len(ReturnedMembers(q)) = Len(WrittenMembers(q))
            /\ \A k \in 1..Len(WrittenMembers(q)) :
                   MemberConverted(ReturnedMembers(q)[k], WrittenMembers(q)[k])

\* a member, `...` and a group of two members are returned as three
\* elements: a descriptor, the marker and a list of two
C12_Witness ==
    /\ ParseStringReturned
    /\ \E q \in ConstructedAssignments :
           /\ Len(WrittenMembers(q)) = 3
           /\ WrittenMembers(q)[2].kind = "ellipsis"
           /\ WrittenMembers(q)[3].kind = "group"
           /\ Len(WrittenMembers(q)[3].members) = 2
           /\ Len(ReturnedMembers(q)) = 3
           /\ ReturnedMembers(q)[2] = None
           /\ Len(ReturnedMembers(q)[3].list) = 2

\* the descriptor has 'name', 'optional' and 'default' as the named member
\* src is written
Qualified(element, src) ==
    /\ element.dict["name"] = py_str(src.name)
    /\ ~({"optional", "default"} \subseteq DOMAIN element.dict)
    /\ IF src.kind = "alternative"
       THEN DOMAIN element.dict \cap {"optional", "default"} = {}
       ELSE /\ ("optional" \in DOMAIN element.dict)
                   <=> (src.qualifier = <<"OPTIONAL">>)
            /\ ("optional" \in DOMAIN element.dict)
                   => element.dict["optional"] = py_bool(TRUE)
            /\ ("default" \in DOMAIN element.dict)
                   <=> (src.qualifier # << >> /\ src.qualifier[1] = "DEFAULT")

\* C13: the descriptor of every named member of a SEQUENCE or SET has
\* 'name' equal to the identifier of the member, 'optional' = true exactly
\* when OPTIONAL follows its type and 'default' exactly when DEFAULT value
\* follows it; no descriptor has both, and a CHOICE alternative has
\* neither.
C13_MemberQualifiers ==
    ParseStringReturned =>
        \A q \in ConstructedAssignments :
            \A k \in 1..Len(WrittenMembers(q)) :
                LET src == WrittenMembers(q)[k]
                    element == ReturnedMembers(q)[k]
                IN  /\ src.kind \in {"component_type", "alternative"}
                       => Qualified(element, src)
                    /\ src.kind = "group"
                       => \A n \in 1..Len(src.members) :
                              Qualified(element.list[n], src.members[n])

\* a SEQUENCE of `a INTEGER DEFAULT 5` is returned with 'default' 5 and no
\* 'optional'
C13_Witness ==
    /\ ParseStringReturned
    /\ \E q \in ConstructedAssignments :
           /\ WrittenMembers(q) =
                  <<ComponentType("a", NoTag, IntegerType(<< >>),
                                  <<"DEFAULT", RealNumber(<<"5">>)>>)>>
           /\ ReturnedMembers(q) =
                  <<py_dict([type |-> py_str("INTEGER"), name |-> py_str("a"),
                             default |-> py_int(5)])>>

(***************************************************************************)
(* The constraints of a type.                                              *)
(***************************************************************************)
RECURSIVE WrittenValues(_)
\* the single values, the value ranges and the extension markers written
\* in a list of constraint elements, in source order, as convert_type is
\* to record them; a SIZE constraint is no value of the type
WrittenValues(constraints) ==
    IF constraints = << >> THEN << >>
    ELSE LET src == Head(constraints)
         IN  (CASE src.kind = "ellipsis" -> <<None>>
                [] src.kind = "value_range" ->
                       <<py_tuple(<<py_int(numeral_value(src.lower)),
                                    py_int(numeral_value(src.upper))>>)>>
                [] src.kind = "single_value" ->
                       <<py_int(numeral_value(src.value.text))>>
                [] src.kind = "parenthesized" -> WrittenValues(src.elements)
                [] OTHER -> << >>)
             \o WrittenValues(Tail(constraints))

\* the SIZE constraints written at the top of a list of constraints
SizeConstraints(constraints) ==
    SelectSeq(constraints, LAMBDA src : src.kind = "size_constraint")

\* the type assignments of TypeAssignments whose type is INTEGER
IntegerAssignments ==
    {q \in TypeAssignments :
        arg[q[1]].assignments[q[2]].type.production = "integer_type"}

\* C14: convert_type puts each SIZE constraint into 'size' and every
\* remaining single value and value range, in source order, into
\* 'restricted-to', each `...` as an extension marker of that list; no
\* single value or range written in the constraints is dropped, and
\* 'restricted-to' is absent when there is none.
C14_Original ==
    ParseStringReturned =>
        \A q \in IntegerAssignments :
            LET src == arg[q[1]].assignments[q[2]]
                descriptor == ModuleRecord(q[1])["types"].dict[src.name].dict
                values == WrittenValues(src.type.constraints)
                sizes == SizeConstraints(src.type.constraints)
            IN  /\ ("restricted-to" \in DOMAIN descriptor) <=> (values # << >>)
                /\ values # << >>
                   => descriptor["restricted-to"] = py_list(values)
                /\ ("size" \in DOMAIN descriptor) <=> (sizes # << >>)
                /\ sizes # << >>
                   => descriptor["size"] =
                          py_list(WrittenValues(sizes[Len(sizes)].elements))

(***************************************************************************)
(* Extension markers in component lists.                                   *)
(***************************************************************************)
\* the places of the list that hold an extension marker
MarkersWritten(members) ==
    {i \in 1..Len(members) : members[i].kind = "ellipsis"}

MarkersReturned(elements_) ==
    {i \in 1..Len(elements_) : elements_[i] = None}

\* C16: for every SEQUENCE, SET and CHOICE that parse_string accepts, the
\* 'members' list holds at most two extension markers and no list of a
\* [[ ]] group holds one; a component list written with three or more
\* `...` is rejected with ParseError.
C16_ExtensionMarkers ==
    pc = "done" =>
        \A q \in ConstructedAssignments :
            /\ ret.exc = "" =>
                   /\ Cardinality(MarkersReturned(ReturnedMembers(q))) <= 2
                   /\ \A k \in 1..Len(ReturnedMembers(q)) :
                          isinstance(ReturnedMembers(q)[k], "list") =>
                              MarkersReturned(ReturnedMembers(q)[k].list) = {}
            /\ Cardinality(MarkersWritten(WrittenMembers(q))) >= 3 =>
                   ret.exc = "ParseError"

\* `SEQUENCE { a BOOLEAN, ..., [[ c BOOLEAN ]], ... }` is returned with a
\* descriptor, the marker, a list of one descriptor and the marker
C16_Witness ==
    /\ ParseStringReturned
    /\ \E q \in ConstructedAssignments :
           /\ MarkersWritten(WrittenMembers(q)) = {2, 4}
           /\ WrittenMembers(q)[3].kind = "group"
           /\ MarkersReturned(ReturnedMembers(q)) = {2, 4}
           /\ isinstance(ReturnedMembers(q)[3], "list")
           /\ Len(ReturnedMembers(q)[3].list) = 1

(***************************************************************************)
(* Value assignments with a parameter list.                                *)
(***************************************************************************)
\* the value assignments (module, index) written with a parameter list
ParameterizedValues ==
    {q \in {<<m, i>> : m \in 1..Len(arg), i \in 1..MaxAssignments} :
        /\ q[2] <= Len(arg[q[1]].assignments)
        /\ arg[q[1]].assignments[q[2]].production
               = "parameterized_value_assignment"
        /\ arg[q[1]].assignments[q[2]].parameters # << >>}

\* C17 as stated: every value assignment written with a parameter list
\* between the value reference and the type is accepted by parse_string
\* and recorded under its name in the 'values' of its module.
C17_Original ==
    pc = "done" =>
        \A q \in ParameterizedValues :
            /\ ret.exc = ""
            /\ arg[q[1]].assignments[q[2]].name
                   \in DOMAIN ModuleRecord(q[1])["values"].dict

(***************************************************************************)
(* Element sets with EXCEPT.                                               *)
(***************************************************************************)
\* the type assignments whose constraint uses EXCEPT in the given form
ExceptAssignments(kind) ==
    {q \in TypeAssignments :
        \E i \in 1..Len(arg[q[1]].assignments[q[2]].type.constraints) :
            arg[q[1]].assignments[q[2]].type.constraints[i].kind = kind}

\* C18 as stated: a constraint of the form (A EXCEPT B), A and B being a
\* value range or a single value, and a constraint of the form
\* (ALL EXCEPT B) are accepted by parse_string: no error is raised.
C18_Original ==
    pc = "done" =>
        /\ ExceptAssignments("exclusion") # {} => ret.exc = ""
        /\ ExceptAssignments("all_except") # {} => ret.exc = ""

(***************************************************************************)
(* The two grammars of one call.                                           *)
(***************************************************************************)
\* Asn1Parser().parse has run on the source and accepted or rejected it
TokenizerGrammarRan == pc # "parse_string"

\* grammar.parseString is the next step of the call
CombinatorGrammarRuns == pc = "parseString"

\* C19 as stated: only one of the two grammars is reachable from
\* parse_string, so that one grammar alone decides whether a source is
\* accepted: no call runs the grammar of create_grammar on a source on
\* which it has run Asn1Parser.grammar.
C19_Original == ~(TokenizerGrammarRan /\ CombinatorGrammarRuns)

(***************************************************************************)
(* The mapping of the Transformer and the tree returned.                   *)
(***************************************************************************)
\* the names of the module definitions of the source
ModuleNames == {arg[m].name : m \in 1..Len(arg)}

\* C20 as stated: the tree parse_string returns is the mapping that
\* Transformer.transform produces from the parse tree of the source, and
\* that mapping has one entry per module definition, keyed by module name.
C20_Original ==
    ParseStringReturned =>
        /\ ret.val = transform(arg).val
        /\ DOMAIN transform(arg).val.dict = ModuleNames

(***************************************************************************)
(* Transformer.transform over the types setup_lookup_modules has stored:   *)
(* one step per call of transform_type, then the return of self._modules.  *)
(***************************************************************************)
MaxModules == 2      \* module definitions of a parse tree
MaxTypes == 2        \* type assignments of a module of a parse tree

\* a textparser Token(kind, value, offset), a tuple of three
Token(kind) == py_tuple(<<py_str(kind), py_str(kind), py_int(0)>>)

\* the keys of the dictionary transform_type looks the tag up in
transform_type_tags ==
    {"BooleanType", "IntegerType", "RealType", "TaggedType", "ChoiceType",
     "NullType", "BitStringType", "OctetStringType", "EnumeratedType",
     "CharacterStringType", "ObjectClassFieldType", "SequenceType", "SetType",
     "SequenceOfType", "SetOfType", "ObjectIdentifierType",
     "AnyDefinedByType", "ReferencedType", "TypeWithConstraint"}

\* tag = type_[0][0]: the name of a tp.Tag, the kind of a Token, the first
\* Token of an untagged Sequence, or the first letter of the name
\* 'TypeWithConstraint' when type_ itself is the tagged pair
type_tag(type__) ==
    IF isinstance(at(type__, 0), "str") THEN py_str("T")
    ELSE at(at(type__, 0), 0)

\* transform_type: every transform_* method stores nothing, a KeyError of
\* the lookup is passed over, and a tag that cannot be hashed raises
transform_type(type_name, type__, module_name) ==
    IF isinstance(type_tag(type__), "list") THEN Raised("TypeError")
    ELSE [exc |-> "", warnings |-> << >>]

\* type_ nodes of the token tree: tagged builtin and referenced types,
\* IA5String and ANY (one Token), SET OF (an untagged Sequence), and
\* SEQUENCE (SIZE ...) OF (a tagged pair where type_ is expected)
TypeNodes ==
    {py_list(<<py_tuple(<<py_str(t), py_list(<< >>)>>), py_list(<< >>)>>) :
        t \in {"IntegerType", "SequenceType", "ReferencedType"}}
    \cup {py_list(<<Token(k), py_list(<< >>)>>) : k \in {"IA5String", "ANY"}}
    \cup {py_list(<<py_list(<<Token("SET"), Token("OF"), Token("BOOLEAN")>>),
                    py_list(<< >>)>>),
          py_tuple(<<py_str("TypeWithConstraint"), py_list(<< >>)>>)}

\* the types of the modules of a parse tree, as self._lookup_modules holds
\* them: modules and types of distinct names
ParseTrees ==
    {[m \in 1..Len(t) |->
         [name |-> <<"M", "N", "O">>[m],
          types |-> [i \in 1..Len(t[m]) |->
                        [name |-> ItemNames[i], type |-> t[m][i]]]]] :
        t \in NonEmptySeqsUpTo(SeqsUpTo(TypeNodes, MaxTypes), MaxModules)}

\* the (module, type) places of the tree in the order transform walks them
Places(tree) ==
    LET RECURSIVE from(_)
        from(m) == IF m > Len(tree) THEN << >>
                   ELSE [i \in 1..Len(tree[m].types) |-> <<m, i>>]
                        \o from(m + 1)
    IN  from(1)

InitTransformer ==
    /\ pc = "transform"
    /\ arg \in ParseTrees
    /\ ret = [exc |-> "pending", visited |-> << >>]
    /\ log = << >>

\* self.transform_type(type_name, type_, module_name) for the next type
TransformType ==
    /\ pc = "transform"
    /\ Len(ret.visited) < Len(Places(arg))
    /\ \E place \in {Places(arg)[Len(ret.visited) + 1]} :
           \E outcome \in {transform_type(
                               arg[place[1]].types[place[2]].name,
                               arg[place[1]].types[place[2]].type,
                               arg[place[1]].name)} :
               IF outcome.exc # ""
               THEN /\ pc' = "done"
                    /\ ret' = [exc |-> outcome.exc, visited |-> ret.visited]
                    /\ log' = log
               ELSE /\ pc' = pc
                    /\ ret' = [ret EXCEPT !.visited = Append(@, place)]
                    /\ log' = log \o outcome.warnings
    /\ UNCHANGED arg

\* return self._modules
TransformReturn ==
    /\ pc = "transform"
    /\ Len(ret.visited) = Len(Places(arg))
    /\ pc' = "done"
    /\ ret' = [exc |-> "", val |-> py_dict(<< >>), visited |-> ret.visited]
    /\ UNCHANGED <<arg, log>>

NextTransformer == TransformType \/ TransformReturn

SpecTransformer == InitTransformer /\ [][NextTransformer]_vars

\* the places whose node transform_type finds no method for
UnknownPlaces ==
    {k \in 1..Len(Places(arg)) :
        \/ ~isinstance(type_tag(arg[Places(arg)[k][1]]
                                    .types[Places(arg)[k][2]].type), "str")
        \/ type_tag(arg[Places(arg)[k][1]].types[Places(arg)[k][2]].type).str
               \notin transform_type_tags}

\* every type of every module has been handed to transform_type, in order,
\* and no exception was raised
AllVisited == ret.exc = "" /\ ret.visited = Places(arg)

\* C21 as stated: a type node whose shape or tag transform_type does not
\* know is dropped with a warning and without an exception, and every
\* other type of the module and every later module is still visited.
C21_Original ==
    pc = "done" =>
        /\ AllVisited
        /\ ret.val = py_dict(<< >>)
        /\ Len(log) = Cardinality(UnknownPlaces)
        /\ \A k \in UnknownPlaces :
               \E w \in 1..Len(log) :
                   log[w].name
                       = arg[Places(arg)[k][1]].types[Places(arg)[k][2]].name

(***************************************************************************)
(* The tokenizer of Asn1Parser and ignore_comments, over the characters of *)
(* the string parse_string is given.  A text is a sequence of characters,  *)
(* positions count from 1 and offsets from 0.                              *)
(***************************************************************************)
UpperCase ==
    {"A", "B", "C", "D", "E", "F", "G", "H", "I", "J", "K", "L", "M",
     "N", "O", "P", "Q", "R", "S", "T", "U", "V", "W", "X", "Y", "Z"}

\* [a-zA-Z0-9-]
NameCharacters ==
    UpperCase \cup Range(Digits) \cup {"-"} \cup
    {"a", "b", "c", "d", "e", "f", "g", "h", "i", "j", "k", "l", "m",
     "n", "o", "p", "q", "r", "s", "t", "u", "v", "w", "x", "y", "z"}

\* the characters of a keyword, for the keywords the texts explored spell
spelling(word) ==
    CASE word = "BY" -> <<"B", "Y">>
      [] word = "OF" -> <<"O", "F">>
      [] word = "END" -> <<"E", "N", "D">>
      [] word = "SET" -> <<"S", "E", "T">>
      [] word = "ALL" -> <<"A", "L", "L">>
      [] word = "SEQUENCE" -> <<"S", "E", "Q", "U", "E", "N", "C", "E">>
      [] word = "ENUMERATED" ->
             <<"E", "N", "U", "M", "E", "R", "A", "T", "E", "D">>

\* Asn1Parser.keywords, the words among them the texts explored can hold
keywords == {"BY", "OF", "END", "SET", "ALL", "SEQUENCE", "ENUMERATED"}

\* a token_specs entry of a fixed text: (kind, name, escaped text), with
\* the characters of the text
Fixed(kind, name, literal) ==
    [kind |-> kind, name |-> name, literal |-> literal]

\* a token_specs entry of a regular expression: (kind, expression)
Pattern(kind) == [kind |-> kind, name |-> kind, literal |-> << >>]

\* Asn1Parser.token_specs, in the order of the alternatives of the
\* expression the tokenizer compiles
token_specs ==
    <<Pattern("SKIP"), Pattern("NUMBER"),
      Fixed("LVBRACK", "[[", <<"[", "[">>),
      Fixed("RVBRACK", "]]", <<"]", "]">>), Fixed("LBRACE", "{", <<"{">>),
      Fixed("RBRACE", "}", <<"}">>), Fixed("LT", "<", <<"<">>),
      Fixed("GT", ">", <<">">>), Fixed("COMMA", ",", <<",">>),
      Fixed("DOTX3", "...", <<".", ".", ".">>),
      Fixed("DOTX2", "..", <<".", ".">>), Fixed("DOT", ".", <<".">>),
      Fixed("LPAREN", "(", <<"(">>), Fixed("RPAREN", ")", <<")">>),
      Fixed("LBRACK", "[", <<"[">>), Fixed("RBRACK", "]", <<"]">>),
      Fixed("MINUS", "-", <<"-">>),
      Fixed("ASSIGN", "::=", <<":", ":", "=">>),
      Fixed("COLON", ":", <<":">>), Fixed("EQ", "=", <<"=">>),
      Pattern("CSTRING"), Fixed("QMARK", "\"", <<"\"">>), Pattern("BSTRING"),
      Pattern("HSTRING"), Fixed("APSTR", "'", <<"'">>),
      Fixed("SCOLON", ";", <<";">>), Fixed("AT", "@", <<"@">>),
      Fixed("PIPE", "|", <<"|">>), Fixed("EMARK", "!", <<"!">>),
      Fixed("HAT", "^", <<"^">>), Fixed("AMPND", "&", <<"&">>),
      Pattern("TREF"), Pattern("IDENT"), Pattern("MISMATCH")>>

\* the position after the longest run of characters of a class from i on
run_end(text, i, class) ==
    Min({j \in i..(Len(text) + 1) : j = Len(text) + 1 \/ text[j] \notin class})

\* --([\s\S]*?(--|\n)) at position i: the position after the match, which
\* ends with the first -- or newline after the opening --, or 0 without one
comment_end(text, i) ==
    IF i + 1 <= Len(text) /\ text[i] = "-" /\ text[i + 1] = "-"
    THEN LET ends == {k \in (i + 2)..Len(text) :
                         \/ text[k] = "\n"
                         \/ k + 1 <= Len(text) /\ text[k] = "-" /\ text[k + 1] = "-"}
         IN  IF ends = {} THEN 0
             ELSE IF text[Min(ends)] = "\n" THEN Min(ends) + 1 ELSE Min(ends) + 2
    ELSE 0

\* '[class]*'suffix at position i: the position after the match, or 0
quoted_end(text, i, class, suffix) ==
    IF text[i] # "'" THEN 0
    ELSE LET j == run_end(text, i + 1, class)
         IN  IF j + 1 <= Len(text) /\ text[j] = "'" /\ text[j + 1] = suffix
             THEN j + 2 ELSE 0

\* the match of one alternative of the tokenizer's expression at position
\* i <= Len(text): the position after the match, or 0 without a match
pattern_end(spec, text, i) ==
    CASE spec.literal # << >> ->
           IF /\ i + Len(spec.literal) - 1 <= Len(text)
              /\ SubSeq(text, i, i + Len(spec.literal) - 1) = spec.literal
           THEN i + Len(spec.literal) ELSE 0
      [] spec.kind = "SKIP" ->
           IF text[i] \in {" ", "\r", "\n", "\t"}
           THEN run_end(text, i, {" ", "\r", "\n", "\t"})
           ELSE comment_end(text, i)
      [] spec.kind = "NUMBER" ->
           LET d == IF text[i] = "-" THEN i + 1 ELSE i
           IN  IF d <= Len(text) /\ text[d] \in Range(Digits)
               THEN run_end(text, d, Range(Digits)) ELSE 0
      [] spec.kind = "CSTRING" ->
           IF text[i] = "\"" /\ \E j \in (i + 1)..Len(text) : text[j] = "\""
           THEN Min({j \in (i + 1)..Len(text) : text[j] = "\""}) + 1 ELSE 0
      [] spec.kind = "BSTRING" ->
           quoted_end(text, i, {"0", "1", " ", "\r", "\n", "\t"}, "B")
      [] spec.kind = "HSTRING" ->
           quoted_end(text, i,
                      Range(Digits) \cup {"A", "B", "C", "D", "E", "F"}
                          \cup {" ", "\r", "\n", "\t"}, "H")
      [] spec.kind = "TREF" ->
           IF text[i] \in UpperCase
           THEN run_end(text, i + 1, NameCharacters) ELSE 0
      [] spec.kind = "IDENT" ->
           IF islower(text[i])
           THEN run_end(text, i + 1, NameCharacters) ELSE 0
      [] spec.kind = "MISMATCH" -> i + 1

\* the shortest of the alternatives that match at position i, the first
\* in their order among those
shortest_match(specs, text, i) ==
    specs[Min({s \in 1..Len(specs) :
                 /\ pattern_end(specs[s], text, i) # 0
                 /\ \A r \in 1..Len(specs) :
                       \/ pattern_end(specs[r], text, i) = 0
                       \/ pattern_end(specs[s], text, i)
                              <= pattern_end(specs[r], text, i)})]

\* the alternative re.finditer takes at position i: the first of the
\* alternatives, in their order, that matches there
first_match(specs, text, i) ==
    specs[Min({s \in 1..Len(specs) : pattern_end(specs[s], text, i) # 0})]

\* the name of the token_specs entry, whatever the value
entry_name(spec, matched) == spec.name

\* the kind of a token: its value if the value is a keyword, else the name
\* of its token_specs entry
token_kind(spec, matched) ==
    IF \E word \in keywords : spelling(word) = matched
    THEN CHOOSE word \in keywords : spelling(word) = matched
    ELSE spec.name

\* the loop of textparser.Parser.tokenize from position i on: SKIP matches
\* are dropped, a MISMATCH raises TokenizeError with its offset, any other
\* match is appended as Token(kind, value, offset).  comments collects the
\* offsets of the characters of the SKIP matches that are comments.
RECURSIVE tokenize_loop(_, _, _, _)
tokenize_match(specs, text, i, spec, matched) ==
    CASE spec.kind = "SKIP" ->
           tokenize_loop(specs, text, pattern_end(spec, text, i),
               [matched EXCEPT !.comments =
                   IF text[i] = "-"
                   THEN @ \cup {k - 1 : k \in i..(pattern_end(spec, text, i) - 1)}
                   ELSE @])
      [] spec.kind = "MISMATCH" ->
           [exc |-> "TokenizeError", offset |-> i - 1]
      [] OTHER ->
           tokenize_loop(specs, text, pattern_end(spec, text, i),
               [matched EXCEPT !.tokens = Append(@,
                   [kind |-> token_kind(spec,
                                 SubSeq(text, i, pattern_end(spec, text, i) - 1)),
                    value |-> SubSeq(text, i, pattern_end(spec, text, i) - 1),
                    offset |-> i - 1])])

tokenize_loop(specs, text, i, matched) ==
    IF i > Len(text) THEN matched
    ELSE tokenize_match(specs, text, i, first_match(specs, text, i), matched)

\* Asn1Parser().tokenize(text)
tokenize(text) ==
    tokenize_loop(token_specs, text, 1,
                  [exc |-> "", tokens |-> << >>, comments |-> {}])

\* as ignore_comments, with the newline of a comment turned into a space too
RECURSIVE ignore_comments_and_newlines(_, _)
ignore_comments_and_newlines(string, i) ==
    IF i > Len(string) THEN << >>
    ELSE IF comment_end(string, i) = 0
         THEN <<string[i]>> \o ignore_comments_and_newlines(string, i + 1)
         ELSE [k \in 1..(comment_end(string, i) - i) |-> " "]
              \o ignore_comments_and_newlines(string, comment_end(string, i))

\* re.sub of ignore_comments from position i on: a match of the comment
\* expression is replaced by itself with every character but the newline
\* turned into a space, any other character is kept
RECURSIVE ignore_comments_loop(_, _)
ignore_comments_loop(string, i) ==
    IF i > Len(string) THEN << >>
    ELSE IF comment_end(string, i) = 0
         THEN <<string[i]>> \o ignore_comments_loop(string, i + 1)
         ELSE [k \in 1..(comment_end(string, i) - i) |->
                  IF string[i + k - 1] = "\n" THEN "\n" ELSE " "]
              \o ignore_comments_loop(string, comment_end(string, i))

\* ignore_comments(string)
ignore_comments(string) == ignore_comments_loop(string, 1)

MaxOperators == 4    \* characters of a text of operator characters
MaxLiteralText == 5     \* characters of a text of quoted literals
MaxPieces == 6       \* pieces of a text with comments
MaxQuoted == 5       \* pieces of a text with a quoted string
MaxWords == 4        \* characters of a text of words

\* the pieces put one after the other
RECURSIVE join(_)
join(pieces) ==
    IF pieces = << >> THEN << >> ELSE Head(pieces) \o join(Tail(pieces))

\* the strings explored: operators that are prefixes of one another,
\* bstring and hstring literals, comments between names and unknown
\* characters, quoted strings that hold comment marks, keywords
Texts ==
    SeqsUpTo({":", "=", ".", "[", "]"}, MaxOperators)
    \cup SeqsUpTo({"'", "0", "B", "H", " "}, MaxLiteralText)
    \cup {join(pieces) :
            pieces \in SeqsUpTo({<<"a">>, <<"-", "-">>, <<" ">>, <<"#">>,
                                 <<"\n">>}, MaxPieces)}
    \cup {join(pieces) :
            pieces \in SeqsUpTo({<<"\"">>, <<"-", "-">>, <<"a">>, <<"\n">>},
                                MaxQuoted)}
    \cup SeqsUpTo({"B", "Y", "O", "F", " "}, MaxWords)

\* parse_string is called with a string
InitText ==
    /\ pc = "tokenize"
    /\ arg \in Texts
    /\ ret = Pending
    /\ log = << >>

\* Asn1Parser().parse(string, token_tree=True) tokenizes the string; a
\* TokenizeError becomes a textparser ParseError there, which parse_string
\* raises as its own ParseError
Tokenize ==
    /\ pc = "tokenize"
    /\ \E t \in {tokenize(arg)} :
          IF t.exc # ""
          THEN /\ ret' = [exc |-> "ParseError", offset |-> t.offset]
               /\ pc' = "done"
          ELSE /\ ret' = t
               /\ pc' = "ignore_comments"
    /\ UNCHANGED <<arg, log>>

\* ignore_comments(string), whose result the combinator grammar parses
IgnoreComments ==
    /\ pc = "ignore_comments"
    /\ ret' = [exc |-> "", tokens |-> ret.tokens, comments |-> ret.comments,
               string |-> ignore_comments(arg)]
    /\ pc' = "done"
    /\ UNCHANGED <<arg, log>>

NextText == Tokenize \/ IgnoreComments

SpecText == InitText /\ [][NextText]_vars

\* the string was tokenized without an error
Tokenized == pc \in {"ignore_comments", "done"} /\ ret.exc = ""

\* the length of the longest match of any token_specs entry at an offset
longest_match(text, offset) ==
    CHOOSE longest \in 1..Len(text) :
        /\ \E s \in 1..Len(token_specs) :
              pattern_end(token_specs[s], text, offset + 1) = offset + 1 + longest
        /\ \A s \in 1..Len(token_specs) :
              pattern_end(token_specs[s], text, offset + 1) <= offset + 1 + longest

\* C22: every token the tokenizer emits is the longest match of any token
\* pattern at the offset the token starts at, so that ::=, ..., .., [[ and
\* ]] are never split into shorter tokens and a bstring or hstring literal
\* is never split at its apostrophe
C22_LongestMatch ==
    Tokenized =>
        \A n \in 1..Len(ret.tokens) :
            Len(ret.tokens[n].value) = longest_match(arg, ret.tokens[n].offset)

\* a text of operator characters was tokenized into a token of several
\* characters, at whose start a shorter pattern matches as well
C22_Witness ==
    /\ Tokenized
    /\ \E n \in 1..Len(ret.tokens) :
          /\ Len(ret.tokens[n].value) > 1
          /\ ret.tokens[n].kind \in {"::=", "...", "..", "[[", "]]"}
    /\ arg \in SeqsUpTo({":", "=", ".", "[", "]"}, MaxOperators)

\* the characters of a text hold -- somewhere
holds_comment_mark(text) ==
    \E k \in 1..(Len(text) - 1) : text[k] = "-" /\ text[k + 1] = "-"

\* C23: every -- outside a quoted string starts a comment the tokenizer
\* emits no token for, also directly after a name and on the last line of
\* the input: no emitted token's text holds --, and no two - tokens stand
\* next to one another
C23_Original ==
    Tokenized =>
        /\ \A n \in 1..Len(ret.tokens) : ~holds_comment_mark(ret.tokens[n].value)
        /\ \A n \in 1..(Len(ret.tokens) - 1) :
              ~ /\ ret.tokens[n].kind = "-"
                /\ ret.tokens[n + 1].kind = "-"
                /\ ret.tokens[n + 1].offset = ret.tokens[n].offset + 1

\* the lexical items of the grammar of Asn1Parser, which match a token by
\* its kind: type_reference (module_reference, object_class_reference and
\* the other upper case references are the same item) and identifier
\* (value_reference and object_reference are the same item)
Asn1Parser_type_reference(token) == token.kind = "TREF"

Asn1Parser_identifier(token) == token.kind = "IDENT"

\* the value of the token is exactly a word of the keyword set
is_keyword(token) == \E word \in keywords : spelling(word) = token.value

RECURSIVE outside_comments_and_strings(_, _)
outside_comments_and_strings(text, i) ==
    IF i > Len(text) THEN {}
    ELSE IF text[i] = "\"" /\ \E j \in (i + 1)..Len(text) : text[j] = "\""
    THEN outside_comments_and_strings(text,
             Min({j \in (i + 1)..Len(text) : text[j] = "\""}) + 1)
    ELSE IF i + 1 <= Len(text) /\ text[i] = "-" /\ text[i + 1] = "-"
    THEN LET k == Min({k \in (i + 2)..(Len(text) + 1) :
                         \/ k = Len(text) + 1
                         \/ text[k] = "\n"
                         \/ k + 1 <= Len(text) /\ text[k] = "-" /\ text[k + 1] = "-"})
         IN  outside_comments_and_strings(text,
                 IF k <= Len(text) /\ text[k] = "-" THEN k + 2 ELSE k)
    ELSE {i} \cup outside_comments_and_strings(text, i + 1)

\* a character that starts no token other than MISMATCH stands outside
\* comments and quoted strings
StrayCharacter ==
    \E i \in outside_comments_and_strings(arg, 1) : arg[i] = "#"

\* C25: for a source with a character outside comments and quoted strings
\* that starts no token other than MISMATCH, parse_string raises ParseError
\* from the tokenizer, and the string never reaches ignore_comments and the
\* combinator grammar
C25_Original ==
    StrayCharacter /\ pc # "tokenize" => pc = "done" /\ ret.exc = "ParseError"

\* the positions of the matched comment spans of a string from i on: a
\* span runs from -- up to and including the next -- or newline, and the
\* next span is looked for after it
RECURSIVE comment_spans(_, _)
comment_spans(string, i) ==
    IF i > Len(string) THEN {}
    ELSE IF comment_end(string, i) = 0 THEN comment_spans(string, i + 1)
    ELSE i..(comment_end(string, i) - 1)
         \cup comment_spans(string, comment_end(string, i))

\* ignore_comments has returned
CommentsIgnored == pc = "done" /\ ret.exc = ""

\* C26: ignore_comments(s) is as long as s, has a newline exactly where s
\* has one, leaves every character outside the matched comment spans as it
\* is and has a space for every other character inside a span
C26_PositionsPreserved ==
    CommentsIgnored =>
        /\ Len(ret.string) = Len(arg)
        /\ \A k \in 1..Len(arg) :
              /\ ret.string[k] = "\n" <=> arg[k] = "\n"
              /\ k \notin comment_spans(arg, 1) => ret.string[k] = arg[k]
              /\ k \in comment_spans(arg, 1) /\ arg[k] # "\n" => ret.string[k] = " "

\* a string with a name, a comment closed by a newline, and an unclosed --
\* on its last line went through ignore_comments
C26_Witness ==
    /\ CommentsIgnored
    /\ \E k \in comment_spans(arg, 1) : arg[k] = "\n"
    /\ \E k \in comment_spans(arg, 1) : arg[k] = "a"
    /\ \E k \in 1..(Len(arg) - 1) :
          /\ k \notin comment_spans(arg, 1)
          /\ arg[k] = "-" /\ arg[k + 1] = "-"

(***************************************************************************)
(* The references of the combinator grammar, applied to a string at its    *)
(* first character.                                                        *)
(***************************************************************************)
\* reserved_words = Regex(r'(END|SEQUENCE|ENUMERATED)(\s|$)') matches at
\* the start of the string
reserved_words(string) ==
    \E word \in {"END", "SEQUENCE", "ENUMERATED"} :
        /\ Len(spelling(word)) <= Len(string)
        /\ SubSeq(string, 1, Len(spelling(word))) = spelling(word)
        /\ \/ Len(string) = Len(spelling(word))
           \/ string[Len(spelling(word)) + 1] \in {" ", "\t", "\r", "\n"}

\* NotAny(reserved_words) + Regex of an upper case letter and the
\* characters of a class: the text the Regex matches, or ParseException
reference(string, class) ==
    IF reserved_words(string) \/ string = << >> \/ Head(string) \notin UpperCase
    THEN Raised("ParseException")
    ELSE Returned(SubSeq(string, 1, run_end(string, 2, class) - 1))

\* type_reference <<= NotAny(reserved_words) + Regex(r'[A-Z][a-zA-Z0-9-]*')
type_reference(string) == reference(string, NameCharacters)

\* module_reference <<= NotAny(reserved_words) + Regex(r'[A-Z][a-zA-Z0-9-]*')
module_reference(string) == reference(string, NameCharacters)

\* object_class_reference = NotAny(reserved_words) + Regex(r'[A-Z][A-Z0-9-]*')
object_class_reference(string) ==
    reference(string, UpperCase \cup Range(Digits) \cup {"-"})

MaxFollowing == 2    \* characters that follow the word of a string

\* the strings offered to the references: a reserved word and what follows
ReferenceTexts ==
    {spelling(word) \o following :
        word \in keywords,
        following \in SeqsUpTo({"S", "s", " ", "{"}, MaxFollowing)}

InitReference ==
    /\ pc = "reference"
    /\ arg \in ReferenceTexts
    /\ ret = Pending
    /\ log = << >>

\* type_reference is tried on the string
TypeReference ==
    /\ pc = "reference"
    /\ ret' = type_reference(arg)
    /\ pc' = "type_reference"
    /\ UNCHANGED <<arg, log>>

\* module_reference is tried on the string
ModuleReference ==
    /\ pc = "reference"
    /\ ret' = module_reference(arg)
    /\ pc' = "module_reference"
    /\ UNCHANGED <<arg, log>>

\* object_class_reference is tried on the string
ObjectClassReference ==
    /\ pc = "reference"
    /\ ret' = object_class_reference(arg)
    /\ pc' = "object_class_reference"
    /\ UNCHANGED <<arg, log>>

NextReference == TypeReference \/ ModuleReference \/ ObjectClassReference

SpecReference == InitReference /\ [][NextReference]_vars

\* C27: type_reference, module_reference and object_class_reference never
\* accept a word of the reserved-word set as a reference
C27_Original ==
    pc # "reference" /\ ret.exc = "" => ~is_keyword([value |-> ret.val])

\* C29: the offsets the tokenizer skips as comment are the offsets of the
\* comment spans ignore_comments blanks, and the characters of every quoted
\* string the tokenizer found are unchanged in the string the combinator
\* grammar is given
C29_Original ==
    CommentsIgnored =>
        /\ ret.comments = {k - 1 : k \in comment_spans(arg, 1)}
        /\ \A n \in 1..Len(ret.tokens) :
              ret.tokens[n].kind = "CSTRING" =>
                  SubSeq(ret.string, ret.tokens[n].offset + 1,
                         ret.tokens[n].offset + Len(ret.tokens[n].value))
                      = ret.tokens[n].value

(***************************************************************************)
(* The grammar of Asn1Parser as textparser patterns.  A pattern is a       *)
(* record of its class, its sub-patterns and a name: the token kind of a   *)
(* String, the variable a pattern is bound to for Ref, the name of a Tag.  *)
(***************************************************************************)
String(kind) == [op |-> "String", patterns |-> << >>, name |-> kind]

Ref(variable) == [op |-> "Ref", patterns |-> << >>, name |-> variable]

NoMatch == [op |-> "NoMatch", patterns |-> << >>, name |-> ""]

Sequence(patterns) == [op |-> "Sequence", patterns |-> patterns, name |-> ""]

choice(patterns) == [op |-> "choice", patterns |-> patterns, name |-> ""]

Optional(pattern) == [op |-> "Optional", patterns |-> <<pattern>>, name |-> ""]

ZeroOrMore(pattern) ==
    [op |-> "ZeroOrMore", patterns |-> <<pattern>>, name |-> ""]

OneOrMore(pattern) ==
    [op |-> "OneOrMore", patterns |-> <<pattern>>, name |-> ""]

Not(pattern) == [op |-> "Not", patterns |-> <<pattern>>, name |-> ""]

Tag(name, pattern) == [op |-> "Tag", patterns |-> <<pattern>>, name |-> name]

DelimitedList(pattern, delim) ==
    [op |-> "DelimitedList", patterns |-> <<pattern, delim>>, name |-> ""]

\* Asn1Parser.grammar: the pattern every variable of the method is bound
\* to when it returns, in the order of the first assignments, and under
\* `grammar` the pattern the method returns
grammar ==
    [value |-> choice(<<Ref("object_class_field_value")>>),
     type_ |->
        choice(<<
            Sequence(<<
                choice(<<Ref("builtin_type"), Ref("referenced_type")>>),
                ZeroOrMore(Ref("constraint"))>>),
            Ref("type_with_constraint")>>),
     object_ |->
        choice(<<
            Ref("defined_object"),
            Ref("object_defn"),
            Ref("object_from_object"),
            Ref("parameterized_object")>>),
     object_set |->
        Sequence(<<String("{"), Ref("object_set_spec"), String("}")>>),
     primitive_field_name |->
        choice(<<
            Ref("type_field_reference"),
            Ref("value_field_reference"),
            Ref("value_set_field_reference"),
            Ref("object_field_reference"),
            Ref("object_set_field_reference")>>),
     constraint |->
        Sequence(<<
            String("("),
            Ref("constraint_spec"),
            Ref("exception_spec"),
            String(")")>>),
     element_set_spec |->
        choice(<<
            Ref("unions"),
            Sequence(<<String("ALL"), Ref("exclusions")>>)>>),
     token_or_group_spec |->
        choice(<<Ref("required_token"), Ref("optional_group")>>),
     value_set |-> NoMatch,
     named_type |-> Sequence(<<String("IDENT"), Ref("type_")>>),
     root_element_set_spec |-> Ref("element_set_spec"),
     defined_object_set |->
        choice(<<
            Ref("external_object_set_reference"),
            Ref("object_set_reference")>>),
     syntax_list |->
        Sequence(<<
            String("{"),
            OneOrMore(Ref("token_or_group_spec")),
            String("}")>>),
     object_from_object |-> NoMatch,
     object_set_from_objects |-> NoMatch,
     defined_value |->
        choice(<<
            Ref("external_value_reference"),
            Ref("parameterized_value"),
            Ref("value_reference")>>),
     component_type_lists |->
        choice(<<
            Sequence(<<
                Ref("root_component_type_list"),
                Optional(
                    Sequence(<<
                        String(","),
                        Ref("extension_and_exception"),
                        Ref("extension_additions"),
                        choice(<<
                            Sequence(<<
                                Ref("extension_end_marker"),
                                String(","),
                                Ref("root_component_type_list")>>),
                            Ref("optional_extension_marker")>>)>>))>>),
            Sequence(<<
                Ref("extension_and_exception"),
                Ref("extension_additions"),
                choice(<<
                    Sequence(<<
                        Ref("extension_end_marker"),
                        String(","),
                        Ref("root_component_type_list")>>),
                    Ref("optional_extension_marker")>>)>>)>>),
     extension_and_exception |->
        Sequence(<<String("..."), Optional(Ref("exception_spec"))>>),
     optional_extension_marker |->
        Optional(Sequence(<<String(","), String("...")>>)),
     additional_element_set_spec |-> Ref("element_set_spec"),
     reference |->
        choice(<<
            Ref("type_reference"),
            Ref("value_reference"),
            Ref("object_class_reference"),
            Ref("object_reference"),
            Ref("object_set_reference")>>),
     defined_object_class |-> Ref("object_class_reference"),
     defined_type |->
        choice(<<
            Ref("external_type_reference"),
            Ref("parameterized_type"),
            Ref("parameterized_value_set_type"),
            Ref("type_reference")>>),
     external_type_reference |->
        Sequence(<<
            Ref("module_reference"),
            String("."),
            Ref("type_reference")>>),
     external_value_reference |->
        Sequence(<<
            Ref("module_reference"),
            String("."),
            Ref("value_reference")>>),
     simple_defined_type |->
        choice(<<Ref("external_type_reference"), Ref("type_reference")>>),
     defined_object |-> NoMatch,
     referenced_value |-> NoMatch,
     builtin_value |->
        choice(<<
            Ref("bit_string_value"),
            Ref("boolean_value"),
            Ref("character_string_value"),
            Ref("choice_value"),
            Ref("relative_oid_value"),
            Ref("sequence_value"),
            Ref("enumerated_value"),
            Ref("real_value"),
            Ref("integer_value"),
            Ref("null_value"),
            Ref("object_identifier_value"),
            Ref("sequence_of_value")>>),
     named_value |-> Sequence(<<Ref("identifier"), Ref("value")>>),
     signed_number |-> Ref("number"),
     name_and_number_form |->
        Sequence(<<
            Ref("identifier"),
            String("("),
            Ref("number_form"),
            String(")")>>),
     number_form |-> choice(<<Ref("number"), Ref("defined_value")>>),
     definitive_number_form |-> Ref("number"),
     version_number |-> Optional(Sequence(<<Ref("number"), String(":")>>)),
     named_number |->
        Sequence(<<
            Ref("identifier"),
            String("("),
            choice(<<Ref("signed_number"), Ref("defined_value")>>),
            String(")")>>),
     intersections |->
        choice(<<
            Ref("intersection_elements"),
            Sequence(<<
                Ref("intersections"),
                Ref("intersection_mark"),
                Ref("intersection_elements")>>)>>),
     unions |->
        DelimitedList(
            Ref("elements"),
            choice(<<Ref("union_mark"), Ref("intersection_mark")>>)),
     identifier |-> String("IDENT"),
     value_reference |-> Ref("identifier"),
     type_reference |-> String("TREF"),
     module_reference |-> Ref("type_reference"),
     real_number |->
        Sequence(<<
            String("NUMBER"),
            String("."),
            Optional(String("NUMBER"))>>),
     number |-> String("NUMBER"),
     value_field_reference |->
        Sequence(<<String("&"), Ref("value_reference")>>),
     type_field_reference |->
        Sequence(<<String("&"), Ref("type_reference")>>),
     word |-> Ref("type_reference"),
     dummy_reference |-> Ref("reference"),
     dummy_governor |-> Ref("dummy_reference"),
     governor |-> choice(<<Ref("type_"), Ref("defined_object_class")>>),
     param_governor |-> choice(<<Ref("governor"), Ref("dummy_governor")>>),
     parameter |->
        Sequence(<<
            Optional(Sequence(<<Ref("param_governor"), String(":")>>)),
            Ref("dummy_reference")>>),
     parameter_list |->
        Optional(
            Sequence(<<
                String("{"),
                DelimitedList(Ref("parameter"), String(",")),
                String("}")>>)),
     actual_parameter |->
        choice(<<
            Ref("type_"),
            Ref("value"),
            Ref("value_set"),
            Ref("defined_object_class"),
            Ref("object_"),
            Ref("object_set")>>),
     actual_parameter_list |->
        Sequence(<<
            String("{"),
            DelimitedList(Ref("actual_parameter"), String(",")),
            String("}")>>),
     parameterized_object |->
        Sequence(<<Ref("defined_object"), Ref("actual_parameter_list")>>),
     parameterized_object_set |->
        Sequence(<<Ref("defined_object_set"), Ref("actual_parameter_list")>>),
     parameterized_object_class |->
        Sequence(<<
            Ref("defined_object_class"),
            Ref("actual_parameter_list")>>),
     parameterized_value_set_type |->
        Sequence(<<
            Ref("simple_defined_type"),
            Ref("actual_parameter_list")>>),
     simple_defined_value |->
        choice(<<Ref("external_value_reference"), Ref("value_reference")>>),
     parameterized_value |->
        Sequence(<<
            Ref("simple_defined_value"),
            Ref("actual_parameter_list")>>),
     parameterized_type |->
        Sequence(<<
            Ref("simple_defined_type"),
            Ref("actual_parameter_list")>>),
     parameterized_reference |->
        Sequence(<<
            Ref("reference"),
            Optional(Sequence(<<String("{"), String("}")>>))>>),
     contents_constraint |->
        choice(<<
            Sequence(<<
                String("CONTAINING"),
                Ref("type_"),
                Optional(
                    Sequence(<<
                        String("ENCODED"),
                        String("BY"),
                        Ref("value")>>))>>),
            Sequence(<<String("ENCODED"), String("BY"), Ref("value")>>)>>),
     level |-> OneOrMore(String(".")),
     component_id_list |-> Ref("identifier"),
     at_notation |->
        Sequence(<<
            String("@"),
            choice(<<
                Ref("component_id_list"),
                Sequence(<<Ref("level"), Ref("component_id_list")>>)>>)>>),
     component_relation_constraint |->
        Sequence(<<
            String("{"),
            Ref("defined_object_set"),
            String("}"),
            String("{"),
            DelimitedList(Ref("at_notation"), String(",")),
            String("}")>>),
     simple_table_constraint |-> Ref("object_set"),
     table_constraint |->
        choice(<<
            Ref("component_relation_constraint"),
            Ref("simple_table_constraint")>>),
     user_defined_constraint_parameter |->
        choice(<<
            Sequence(<<
                Ref("governor"),
                String(":"),
                choice(<<
                    Ref("value"),
                    Ref("value_set"),
                    Ref("object_"),
                    Ref("object_set")>>)>>),
            Ref("type_"),
            Ref("defined_object_class")>>),
     user_defined_constraint |->
        Sequence(<<
            String("CONSTRAINED"),
            String("BY"),
            String("{"),
            Optional(
                DelimitedList(
                    Ref("user_defined_constraint_parameter"),
                    String(","))),
            String("}")>>),
     general_constraint |->
        choice(<<
            Ref("user_defined_constraint"),
            Ref("table_constraint"),
            Ref("contents_constraint")>>),
     object_set_reference |-> Ref("type_reference"),
     value_set_field_reference |-> NoMatch,
     object_field_reference |-> NoMatch,
     object_set_field_reference |-> NoMatch,
     object_class_reference |-> Ref("type_reference"),
     object_reference |-> Ref("value_reference"),
     external_object_set_reference |-> NoMatch,
     field_name |-> Ref("primitive_field_name"),
     object_set_field_spec |-> NoMatch,
     object_field_spec |-> NoMatch,
     variable_type_value_set_field_spec |-> NoMatch,
     fixed_type_value_set_field_spec |-> NoMatch,
     variable_type_value_field_spec |-> NoMatch,
     fixed_type_value_field_spec |->
        Sequence(<<
            Ref("value_field_reference"),
            Ref("type_"),
            Optional(String("UNIQUE")),
            Optional(
                choice(<<
                    String("OPTIONAL"),
                    Sequence(<<String("DEFAULT"), Ref("value")>>)>>))>>),
     type_field_spec |->
        Sequence(<<
            Ref("type_field_reference"),
            Optional(
                choice(<<
                    String("OPTIONAL"),
                    Sequence(<<String("DEFAULT"), Ref("type_")>>)>>))>>),
     field_spec |->
        choice(<<
            Ref("type_field_spec"),
            Ref("fixed_type_value_field_spec"),
            Ref("variable_type_value_field_spec"),
            Ref("fixed_type_value_set_field_spec"),
            Ref("variable_type_value_set_field_spec"),
            Ref("object_field_spec"),
            Ref("object_set_field_spec")>>),
     with_syntax_spec |->
        Sequence(<<String("WITH"), String("SYNTAX"), Ref("syntax_list")>>),
     object_class_defn |->
        Sequence(<<
            String("CLASS"),
            String("{"),
            DelimitedList(Ref("field_spec"), String(",")),
            String("}"),
            Optional(Ref("with_syntax_spec"))>>),
     object_class |->
        choice(<<
            Ref("object_class_defn"),
            Ref("parameterized_object_class")>>),
     parameterized_object_class_assignment |->
        Sequence(<<
            Ref("object_class_reference"),
            Ref("parameter_list"),
            String("::="),
            Ref("object_class")>>),
     literal |-> choice(<<Ref("word"), String(",")>>),
     required_token |->
        choice(<<Ref("literal"), Ref("primitive_field_name")>>),
     optional_group |->
        Sequence(<<
            String("["),
            OneOrMore(Ref("token_or_group_spec")),
            String("]")>>),
     setting |->
        choice(<<
            Ref("type_"),
            Ref("value"),
            Ref("value_set"),
            Ref("object_"),
            Ref("object_set"),
            String("CSTRING")>>),
     field_setting |->
        Sequence(<<Ref("primitive_field_name"), Ref("setting")>>),
     default_syntax |->
        Sequence(<<
            String("{"),
            DelimitedList(Ref("field_setting"), String(",")),
            String("}")>>),
     defined_syntax |-> NoMatch,
     object_defn |-> choice(<<Ref("default_syntax"), Ref("defined_syntax")>>),
     parameterized_object_assignment |->
        Sequence(<<
            Ref("object_reference"),
            Ref("parameter_list"),
            Ref("defined_object_class"),
            String("::="),
            Ref("object_")>>),
     object_set_elements |->
        choice(<<
            Ref("object_"),
            Ref("defined_object_set"),
            Ref("object_set_from_objects"),
            Ref("parameterized_object_set")>>),
     object_set_spec |->
        choice(<<
            Sequence(<<
                Ref("root_element_set_spec"),
                Optional(
                    Sequence(<<
                        String(","),
                        String("..."),
                        Optional(
                            Sequence(<<
                                String(","),
                                Ref("additional_element_set_spec")>>))>>))>>),
            Sequence(<<
                String("..."),
                Optional(
                    Sequence(<<
                        String(","),
                        Ref("additional_element_set_spec")>>))>>)>>),
     parameterized_object_set_assignment |->
        Sequence(<<
            Ref("object_set_reference"),
            Ref("parameter_list"),
            Ref("defined_object_class"),
            String("::="),
            Ref("object_set")>>),
     fixed_type_field_val |->
        choice(<<Ref("builtin_value"), Ref("referenced_value")>>),
     open_type_field_val |->
        Sequence(<<Ref("type_"), String(":"), Ref("value")>>),
     object_class_field_value |->
        choice(<<Ref("open_type_field_val"), Ref("fixed_type_field_val")>>),
     object_class_field_type |->
        Sequence(<<
            Ref("defined_object_class"),
            String("."),
            Ref("field_name")>>),
     exception_identification |->
        choice(<<
            Ref("signed_number"),
            Ref("defined_value"),
            Sequence(<<Ref("type_"), String(":"), Ref("value")>>)>>),
     exception_spec |->
        Optional(Sequence(<<String("!"), Ref("exception_identification")>>)),
     pattern_constraint |->
        Tag("PatternConstraint",
            Sequence(<<String("PATTERN"), Ref("value")>>)),
     presence_constraint |->
        Optional(
            choice(<<
                String("PRESENT"),
                String("ABSENT"),
                String("OPTIONAL")>>)),
     value_constraint |-> Optional(Ref("constraint")),
     component_constraint |->
        Sequence(<<Ref("value_constraint"), Ref("presence_constraint")>>),
     named_constraint |->
        Sequence(<<Ref("identifier"), Ref("component_constraint")>>),
     type_constraints |-> DelimitedList(Ref("named_constraint"), String(",")),
     partial_specification |->
        Sequence(<<
            String("{"),
            String("..."),
            String(","),
            Ref("type_constraints"),
            String("}")>>),
     full_specification |->
        Sequence(<<String("{"), Ref("type_constraints"), String("}")>>),
     multiple_type_constraints |->
        choice(<<Ref("full_specification"), Ref("partial_specification")>>),
     single_type_constraint |-> Ref("constraint"),
     inner_type_constraints |->
        Tag("InnerTypeConstraint",
            choice(<<
                Sequence(<<
                    String("WITH"),
                    String("COMPONENT"),
                    Ref("single_type_constraint")>>),
                Sequence(<<
                    String("WITH"),
                    String("COMPONENTS"),
                    Ref("multiple_type_constraints")>>)>>)),
     permitted_alphabet |->
        Tag("PermittedAlphabet",
            Sequence(<<String("FROM"), Ref("constraint")>>)),
     type_constraint |-> Tag("TypeConstraint", Ref("type_")),
     size_constraint |->
        Tag("SizeConstraint",
            Sequence(<<String("SIZE"), Ref("constraint")>>)),
     lower_end_value |-> choice(<<Ref("value"), String("MIN")>>),
     upper_end_value |-> choice(<<Ref("value"), String("MAX")>>),
     lower_endpoint |->
        Sequence(<<Ref("lower_end_value"), Optional(String("<"))>>),
     upper_endpoint |->
        Sequence(<<Optional(String("<")), Ref("upper_end_value")>>),
     value_range |->
        Tag("ValueRange",
            Sequence(<<
                Ref("lower_endpoint"),
                String(".."),
                Ref("upper_endpoint")>>)),
     includes |-> Optional(String("INCLUDES")),
     contained_subtype |->
        Tag("ContainedSubtype", Sequence(<<Ref("includes"), Ref("type_")>>)),
     single_value |-> Tag("SingleValue", Ref("value")),
     subtype_elements |->
        choice(<<
            Ref("size_constraint"),
            Ref("permitted_alphabet"),
            Ref("value_range"),
            Ref("inner_type_constraints"),
            Ref("single_value"),
            Ref("pattern_constraint"),
            Ref("contained_subtype"),
            Ref("type_constraint")>>),
     elements |->
        choice(<<
            Ref("subtype_elements"),
            Ref("object_set_elements"),
            Sequence(<<
                String("("),
                Ref("element_set_spec"),
                String(")")>>)>>),
     intersection_mark |-> choice(<<String("^"), String("INTERSECTION")>>),
     union_mark |-> choice(<<String("|"), String("UNION")>>),
     exclusions |-> Sequence(<<String("EXCEPT"), Ref("elements")>>),
     intersection_elements |->
        Sequence(<<Ref("elements"), Optional(Ref("exclusions"))>>),
     element_set_specs |->
        Sequence(<<
            Ref("root_element_set_spec"),
            Optional(
                Sequence(<<
                    String(","),
                    String("..."),
                    Optional(
                        Sequence(<<
                            String(","),
                            Ref("additional_element_set_spec")>>))>>))>>),
     subtype_constraint |-> Ref("element_set_specs"),
     constraint_spec |->
        choice(<<Ref("subtype_constraint"), Ref("general_constraint")>>),
     type_with_constraint |->
        Tag("TypeWithConstraint",
            Sequence(<<
                choice(<<String("SET"), String("SEQUENCE")>>),
                choice(<<Ref("constraint"), Ref("size_constraint")>>),
                String("OF"),
                choice(<<Ref("type_"), Ref("named_type")>>)>>)),
     unrestricted_character_string_type |->
        Sequence(<<String("CHARACTER"), String("STRING")>>),
     unrestricted_character_string_value |-> NoMatch,
     group |-> Ref("number"),
     plane |-> Ref("number"),
     row |-> Ref("number"),
     cell |-> Ref("number"),
     quadruple |->
        Sequence(<<
            String("{"),
            Ref("group"),
            String(","),
            Ref("plane"),
            String(","),
            Ref("row"),
            String(","),
            Ref("cell"),
            String("}")>>),
     table_column |-> Ref("number"),
     table_row |-> Ref("number"),
     tuple_ |->
        Sequence(<<
            String("{"),
            Ref("table_column"),
            String(","),
            Ref("table_row"),
            String("}")>>),
     chars_defn |->
        choice(<<
            String("CSTRING"),
            Ref("quadruple"),
            Ref("tuple_"),
            Ref("defined_value")>>),
     charsyms |-> DelimitedList(Ref("chars_defn"), String(",")),
     character_string_list |->
        Sequence(<<String("{"), Ref("charsyms"), String("}")>>),
     restricted_character_string_value |->
        choice(<<
            String("CSTRING"),
            Ref("character_string_list"),
            Ref("quadruple"),
            Ref("tuple_")>>),
     restricted_character_string_type |->
        choice(<<
            String("BMPString"),
            String("GeneralString"),
            String("GraphicString"),
            String("IA5String"),
            String("ISO646String"),
            String("NumericString"),
            String("PrintableString"),
            String("TeletexString"),
            String("UTCTime"),
            String("GeneralizedTime"),
            String("T61String"),
            String("UniversalString"),
            String("UTF8String"),
            String("VideotexString"),
            String("VisibleString")>>),
     character_string_value |->
        choice(<<
            Ref("restricted_character_string_value"),
            Ref("unrestricted_character_string_value")>>),
     character_string_type |->
        Tag("CharacterStringType",
            choice(<<
                Ref("restricted_character_string_type"),
                Ref("unrestricted_character_string_type")>>)),
     relative_oid_components |->
        choice(<<
            Ref("number_form"),
            Ref("name_and_number_form"),
            Ref("defined_value")>>),
     relative_oid_component_list |->
        OneOrMore(Ref("relative_oid_components")),
     relative_oid_value |->
        Sequence(<<
            String("{"),
            Ref("relative_oid_component_list"),
            String("}")>>),
     name_form |-> Ref("identifier"),
     obj_id_components |->
        choice(<<
            Ref("name_and_number_form"),
            Ref("defined_value"),
            Ref("number_form"),
            Ref("name_form")>>),
     obj_id_components_list |-> OneOrMore(Ref("obj_id_components")),
     object_identifier_value |->
        choice(<<
            Sequence(<<
                String("{"),
                Ref("obj_id_components_list"),
                String("}")>>),
            Sequence(<<
                String("{"),
                Ref("defined_value"),
                Ref("obj_id_components_list"),
                String("}")>>)>>),
     object_identifier_type |->
        Tag("ObjectIdentifierType",
            Sequence(<<String("OBJECT"), String("IDENTIFIER")>>)),
     alternative_type_list |-> DelimitedList(Ref("named_type"), String(",")),
     extension_addition_alternatives_group |->
        Sequence(<<
            String("[["),
            Ref("version_number"),
            Ref("alternative_type_list"),
            String("]]")>>),
     extension_addition_alternative |->
        choice(<<
            Ref("extension_addition_alternatives_group"),
            Ref("named_type")>>),
     extension_addition_alternatives_list |->
        DelimitedList(Ref("extension_addition_alternative"), String(",")),
     extension_addition_alternatives |->
        Optional(
            Sequence(<<
                String(","),
                Ref("extension_addition_alternatives_list")>>)),
     root_alternative_type_list |-> Ref("alternative_type_list"),
     alternative_type_lists |->
        Sequence(<<
            Ref("root_alternative_type_list"),
            Optional(
                Sequence(<<
                    String(","),
                    Ref("extension_and_exception"),
                    Ref("extension_addition_alternatives"),
                    Ref("optional_extension_marker")>>))>>),
     choice_type |->
        Tag("ChoiceType",
            Sequence(<<
                String("CHOICE"),
                String("{"),
                Ref("alternative_type_lists"),
                String("}")>>)),
     choice_value |->
        Sequence(<<Ref("identifier"), String(":"), Ref("value")>>),
     set_of_type |->
        Sequence(<<
            String("SET"),
            String("OF"),
            choice(<<Ref("type_"), Ref("named_type")>>)>>),
     set_type |->
        Tag("SetType",
            Sequence(<<
                String("SET"),
                String("{"),
                Optional(
                    choice(<<
                        Ref("component_type_lists"),
                        Sequence(<<
                            Ref("extension_and_exception"),
                            Ref("optional_extension_marker")>>)>>)),
                String("}")>>)),
     sequence_of_value |-> NoMatch,
     sequence_of_type |->
        Tag("SequenceOfType",
            Sequence(<<
                String("SEQUENCE"),
                String("OF"),
                choice(<<Ref("type_"), Ref("named_type")>>)>>)),
     component_value_list |-> DelimitedList(Ref("named_value"), String(",")),
     sequence_value |->
        Sequence(<<
            String("{"),
            Optional(Ref("component_value_list")),
            String("}")>>),
     component_type |->
        choice(<<
            Sequence(<<
                Ref("named_type"),
                Optional(
                    choice(<<
                        String("OPTIONAL"),
                        Sequence(<<String("DEFAULT"), Ref("value")>>)>>))>>),
            Sequence(<<String("COMPONENTS"), String("OF"), Ref("type_")>>)>>),
     extension_addition_group |->
        Sequence(<<
            String("[["),
            Ref("version_number"),
            DelimitedList(Ref("component_type"), String(",")),
            String("]]")>>),
     extension_addition |->
        choice(<<Ref("component_type"), Ref("extension_addition_group")>>),
     extension_addition_list |->
        DelimitedList(Ref("extension_addition"), String(",")),
     extension_additions |->
        Optional(Sequence(<<String(","), Ref("extension_addition_list")>>)),
     extension_end_marker |-> Sequence(<<String(","), String("...")>>),
     component_type_list |->
        DelimitedList(Ref("component_type"), String(",")),
     root_component_type_list |-> Ref("component_type_list"),
     sequence_type |->
        Tag("SequenceType",
            Sequence(<<
                String("SEQUENCE"),
                String("{"),
                Optional(
                    choice(<<
                        Ref("component_type_lists"),
                        Sequence(<<
                            Ref("extension_and_exception"),
                            Ref("optional_extension_marker")>>)>>)),
                String("}")>>)),
     null_value |-> String("NULL"),
     null_type |-> Tag("NullType", String("NULL")),
     octet_string_type |->
        Tag("OctetStringType",
            Sequence(<<String("OCTET"), String("STRING")>>)),
     bit_string_value |->
        choice(<<
            String("BSTRING"),
            String("HSTRING"),
            Sequence(<<
                String("{"),
                Optional(DelimitedList(Ref("identifier"), String(","))),
                String("}")>>)>>),
     named_bit |->
        Sequence(<<
            String("IDENT"),
            String("("),
            choice(<<Ref("number"), Ref("defined_value")>>),
            String(")")>>),
     bit_string_type |->
        Tag("BitStringType",
            Sequence(<<
                String("BIT"),
                String("STRING"),
                Optional(
                    Sequence(<<
                        String("{"),
                        DelimitedList(Ref("named_bit"), String(",")),
                        String("}")>>))>>)),
     tag |->
        Sequence(<<
            String("["),
            Optional(
                choice(<<
                    String("UNIVERSAL"),
                    String("APPLICATION"),
                    String("PRIVATE")>>)),
            Ref("number"),
            String("]")>>),
     tagged_type |->
        Tag("TaggedType",
            Sequence(<<
                Ref("tag"),
                Optional(choice(<<String("IMPLICIT"), String("EXPLICIT")>>)),
                Ref("type_")>>)),
     special_real_value |->
        choice(<<String("PLUS-INFINITY"), String("MINUS-INFINITY")>>),
     numeric_real_value |->
        choice(<<Ref("real_number"), Ref("sequence_value")>>),
     real_value |->
        choice(<<Ref("numeric_real_value"), Ref("special_real_value")>>),
     real_type |-> Tag("RealType", String("REAL")),
     enumerated_value |-> Ref("identifier"),
     enumeration_item |-> choice(<<Ref("named_number"), Ref("identifier")>>),
     enumeration |-> DelimitedList(Ref("enumeration_item"), String(",")),
     root_enumeration |-> Ref("enumeration"),
     additional_enumeration |-> Ref("enumeration"),
     enumerations |->
        Sequence(<<
            Ref("root_enumeration"),
            Optional(
                Sequence(<<
                    String(","),
                    String("..."),
                    Ref("exception_spec"),
                    Optional(
                        Sequence(<<
                            String(","),
                            Ref("additional_enumeration")>>))>>))>>),
     enumerated_type |->
        Tag("EnumeratedType",
            Sequence(<<
                String("ENUMERATED"),
                String("{"),
                Ref("enumerations"),
                String("}")>>)),
     integer_value |-> choice(<<Ref("signed_number"), Ref("identifier")>>),
     integer_type |->
        Tag("IntegerType",
            Sequence(<<
                String("INTEGER"),
                Optional(
                    Sequence(<<
                        String("{"),
                        DelimitedList(Ref("named_number"), String(",")),
                        String("}")>>))>>)),
     boolean_value |-> choice(<<String("TRUE"), String("FALSE")>>),
     boolean_type |-> Tag("BooleanType", String("BOOLEAN")),
     any_defined_by_type |->
        Sequence(<<
            String("ANY"),
            String("DEFINED"),
            String("BY"),
            Ref("value_reference")>>),
     builtin_type |->
        choice(<<
            Ref("choice_type"),
            Ref("integer_type"),
            Ref("null_type"),
            Ref("bit_string_type"),
            Ref("octet_string_type"),
            Ref("enumerated_type"),
            String("IA5String"),
            Ref("boolean_type"),
            Ref("real_type"),
            Ref("character_string_type"),
            Ref("object_class_field_type"),
            Ref("sequence_type"),
            Ref("set_type"),
            Ref("sequence_of_type"),
            Ref("set_of_type"),
            Ref("object_identifier_type"),
            Ref("tagged_type"),
            Ref("any_defined_by_type"),
            String("ANY"),
            String("EXTERNAL")>>),
     referenced_type |-> Tag("ReferencedType", Ref("type_reference")),
     parameterized_value_assignment |->
        Tag("ParameterizedValueAssignment",
            Sequence(<<
                Ref("value_reference"),
                Ref("type_"),
                String("::="),
                Ref("value")>>)),
     parameterized_type_assignment |->
        Tag("ParameterizedTypeAssignment",
            Sequence(<<
                Ref("type_reference"),
                Ref("parameter_list"),
                String("::="),
                Ref("type_")>>)),
     assignment |->
        choice(<<
            Ref("parameterized_object_set_assignment"),
            Ref("parameterized_object_assignment"),
            Ref("parameterized_object_class_assignment"),
            Ref("parameterized_type_assignment"),
            Ref("parameterized_value_assignment")>>),
     assignment_list |-> ZeroOrMore(Ref("assignment")),
     symbol |-> choice(<<Ref("parameterized_reference"), Ref("reference")>>),
     symbol_list |-> DelimitedList(Ref("symbol"), String(",")),
     assigned_identifier |->
        Optional(
            choice(<<
                Ref("object_identifier_value"),
                Sequence(<<
                    Ref("defined_value"),
                    Not(choice(<<String(","), String("FROM")>>))>>)>>)),
     global_module_reference |->
        Sequence(<<Ref("module_reference"), Ref("assigned_identifier")>>),
     symbols_from_module |->
        Sequence(<<
            Ref("symbol_list"),
            String("FROM"),
            Ref("global_module_reference")>>),
     imports |->
        Optional(
            Sequence(<<
                String("IMPORTS"),
                ZeroOrMore(Ref("symbols_from_module")),
                String(";")>>)),
     symbols_exported |-> Optional(Ref("symbol_list")),
     exports |->
        Optional(
            Sequence(<<
                String("EXPORTS"),
                choice(<<String("ALL"), Ref("symbols_exported")>>),
                String(";")>>)),
     module_body |->
        Sequence(<<Ref("exports"), Ref("imports"), Ref("assignment_list")>>),
     extension_default |->
        Optional(Sequence(<<String("EXTENSIBILITY"), String("IMPLIED")>>)),
     tag_default |->
        Optional(
            Sequence(<<
                choice(<<
                    String("EXPLICIT"),
                    String("IMPLICIT"),
                    String("AUTOMATIC")>>),
                String("TAGS")>>)),
     definitive_name_and_number_form |->
        Sequence(<<
            Ref("identifier"),
            String("("),
            Ref("definitive_number_form"),
            String(")")>>),
     definitive_obj_id_component |->
        choice(<<
            Ref("definitive_name_and_number_form"),
            Ref("name_form"),
            Ref("definitive_number_form")>>),
     definitive_obj_id_components_list |->
        OneOrMore(Ref("definitive_obj_id_component")),
     definitive_identifier |->
        Optional(
            Sequence(<<
                String("{"),
                Ref("definitive_obj_id_components_list"),
                String("}")>>)),
     module_identifier |->
        Sequence(<<Ref("module_reference"), Ref("definitive_identifier")>>),
     module_definition |->
        Sequence(<<
            Ref("module_identifier"),
            String("DEFINITIONS"),
            Ref("tag_default"),
            Ref("extension_default"),
            String("::="),
            String("BEGIN"),
            Ref("module_body"),
            String("END")>>),
     grammar |->
        OneOrMore(Ref("module_definition"))]

\* the pattern can match without consuming a token, given the variables
\* whose patterns can
RECURSIVE nullable_given(_, _)
nullable_given(pattern, variables) ==
    CASE pattern.op \in {"String", "NoMatch"} -> FALSE
      [] pattern.op = "Ref" -> pattern.name \in variables
      [] pattern.op = "Sequence" ->
             \A i \in 1..Len(pattern.patterns) :
                 nullable_given(pattern.patterns[i], variables)
      [] pattern.op = "choice" ->
             \E i \in 1..Len(pattern.patterns) :
                 nullable_given(pattern.patterns[i], variables)
      [] pattern.op \in {"Optional", "ZeroOrMore", "Not"} -> TRUE
      [] pattern.op \in {"OneOrMore", "Tag", "DelimitedList"} ->
             nullable_given(pattern.patterns[1], variables)

\* the variables whose patterns can match without consuming a token: the
\* least set closed under nullable_given
RECURSIVE nullable_closure(_)
nullable_closure(variables) ==
    IF {v \in DOMAIN grammar : nullable_given(grammar[v], variables)} = variables
    THEN variables
    ELSE nullable_closure(
             {v \in DOMAIN grammar : nullable_given(grammar[v], variables)})

NullableVariables == nullable_closure({})

nullable(pattern) == nullable_given(pattern, NullableVariables)

\* the variables a pattern refers to
RECURSIVE references(_)
references(pattern) ==
    IF pattern.op = "Ref" THEN {pattern.name}
    ELSE UNION {references(pattern.patterns[i]) :
                   i \in 1..Len(pattern.patterns)}

\* as left_calls, with every reference of the pattern
every_reference(pattern) == references(pattern)

\* the variables whose patterns match() of a pattern can call before any
\* token is consumed: the first pattern of a Sequence and the next ones as
\* long as the ones before can match nothing, every alternative of a
\* choice, the body of a repetition, and the delimiter of a DelimitedList
\* whose body can match nothing
RECURSIVE left_calls(_)
left_calls(pattern) ==
    CASE pattern.op = "Ref" -> {pattern.name}
      [] pattern.op = "Sequence" ->
             UNION {left_calls(pattern.patterns[i]) :
                       i \in {k \in 1..Len(pattern.patterns) :
                                 \A j \in 1..(k - 1) :
                                     nullable(pattern.patterns[j])}}
      [] pattern.op = "DelimitedList" ->
             left_calls(pattern.patterns[1])
             \cup (IF nullable(pattern.patterns[1])
                   THEN left_calls(pattern.patterns[2]) ELSE {})
      [] OTHER ->
             UNION {left_calls(pattern.patterns[i]) :
                       i \in 1..Len(pattern.patterns)}

\* the bodies of the ZeroOrMore, OneOrMore and DelimitedList patterns
\* within a pattern
RECURSIVE repeated(_)
repeated(pattern) ==
    (IF pattern.op \in {"ZeroOrMore", "OneOrMore", "DelimitedList"}
     THEN {pattern.patterns[1]} ELSE {})
    \cup UNION {repeated(pattern.patterns[i]) : i \in 1..Len(pattern.patterns)}

\* Asn1Parser().parse hands the tokens to the pattern grammar() returns.
\* arg is the variable whose pattern is being matched, ret the variable a
\* chain of calls from there has got to before any token is consumed.
InitGrammar ==
    /\ pc = "match"
    /\ arg = "grammar"
    /\ ret = "grammar"
    /\ log = << >>

\* the match of a pattern gets to a pattern it refers to, after any
\* number of tokens
Match ==
    /\ \E variable \in references(grammar[arg]) :
          /\ arg' = variable
          /\ ret' = variable
    /\ pc' = "match"
    /\ UNCHANGED log

\* match() of the pattern calls match() of another one before it has
\* consumed a token
Call ==
    /\ \E variable \in left_calls(grammar[ret]) : ret' = variable
    /\ pc' = "call"
    /\ UNCHANGED <<arg, log>>

NextGrammar == Match \/ Call

SpecGrammar == InitGrammar /\ [][NextGrammar]_vars

\* C30: no pattern reachable from the pattern grammar() returns is
\* re-entered before a token is consumed, intersections, which calls
\* itself first, is not reachable, and no ZeroOrMore, OneOrMore or
\* DelimitedList reachable has a body that can match without consuming a
\* token
C30_NoReentry ==
    /\ pc = "call" => ret # arg
    /\ ret # "intersections"
    /\ \A body \in repeated(grammar[ret]) : ~nullable(body)

\* the match of module_body has called assignment, the body of the
\* repetition assignment_list, past exports and imports, which can match
\* nothing, while intersections is among the patterns its own match calls
\* before a token is consumed
C30_Witness ==
    /\ pc = "call"
    /\ arg = "module_body"
    /\ ret = "assignment"
    /\ {"exports", "imports"} \subseteq NullableVariables
    /\ Ref("assignment") \in repeated(grammar.assignment_list)
    /\ "intersections" \in left_calls(grammar.intersections)

====
